---- MODULE Spec2Model ----
(***************************************************************************)
(* A model of package orderedobject (object.go): the generic ordered       *)
(* container Object[V] with V = any, its slice-backed storage, and its     *)
(* JSON codec on top of go-json-experiment/json and jsontext.              *)
(*                                                                         *)
(* Go's memory is modelled explicitly.  A slice is a header (backing array *)
(* and length) over an array that lives in a heap; two headers may name    *)
(* the same array, and slots past a header's length keep what was last     *)
(* written there.  That is what makes Clone, Delete's in-place shift and   *)
(* UnmarshalJSONFrom's in-place truncation say something.                  *)
(***************************************************************************)
EXTENDS Integers, Sequences, FiniteSets, TLC

(***************************************************************************)
(* Bounds of the model.                                                    *)
(***************************************************************************)
\* largest capacity hint handed to NewObject
MaxCap == 2
\* longest sequence of Set calls recorded in SpecSet
MaxTrace == 4

(***************************************************************************)
(* Keys and values.                                                        *)
(***************************************************************************)
Keys == {"a", "b", "c"}

\* strings.Compare on the keys of the model
KeyRank(k) == CASE k = "a" -> 1 [] k = "b" -> 2 [] k = "c" -> 3 [] OTHER -> 0

\* The value universe of V = any.  nil is also the zero value of any.
Nil == [t |-> "null"]
Num(n) == [t |-> "num", n |-> n]
Str(s) == [t |-> "str", s |-> s]
\* *Object[any]: a pointer to the container held by handle h
Ref(h) == [t |-> "obj", ref |-> h]
\* map[string]any, as the set of its keys and their values
MapV(m) == [t |-> "map", m |-> m]
\* []any
ArrV(a) == [t |-> "arr", a |-> a]

\* Entry[V]{Key: key, Value: value}
Entry(key, value) == [Key |-> key, Value |-> value]
\* the zero Entry[any] that make() fills a fresh array with
ZeroEntry == Entry("", Nil)

\* The program's variables that hold a *Object[any].
Handles == {1, 2, 3}
\* One array per container, and one more while append copies.
ArrIds == 1 .. (Cardinality(Handles) + 1)

VARIABLES
    arrays,   \* heap: array id -> the array's slots (its length is the capacity)
    objs,     \* handle -> [alive, arr, len]: the container's entries slice header
    last,     \* the call made last, with its arguments, result and the state before
    input,    \* the JSON text the program holds
    cl,       \* the clone made last: its two handles and what both held then
    trace     \* keys handed to Set since NewObject (kept by SpecSet only)

vars == <<arrays, objs, input, last, cl, trace>>

(***************************************************************************)
(* Slices.                                                                 *)
(***************************************************************************)
\* the array behind a header; a header with arr = 0 has no storage
ArrayOf(as, hd) == IF hd.arr = 0 THEN <<>> ELSE as[hd.arr]
\* cap(object.entries)
CapOf(as, hd) == Len(ArrayOf(as, hd))
\* object.entries as a sequence: the first len slots of the backing array
EntriesOf(as, hd) == SubSeq(ArrayOf(as, hd), 1, hd.len)

\* ids of the arrays some live container's header names
UsedArrays(os) == {os[h].arr : h \in {x \in DOMAIN os : os[x].alive}} \ {0}
\* the id the allocator hands out next
FreshArray(os) == CHOOSE i \in ArrIds \ UsedArrays(os) :
                     \A j \in ArrIds \ UsedArrays(os) : i <= j
\* What the program can still reach.  An array no header names is gone.  A
\* slot past the length of every header that names its array keeps its old
\* content in memory, but nothing reads it before append overwrites it: it
\* is shown as the zero entry.  The address of an array cannot be observed
\* either: the arrays are numbered in the order of the handles naming them.
Reached(os, i, j) ==
    \E h \in DOMAIN os : os[h].alive /\ os[h].arr = i /\ j <= os[h].len
\* the least handle whose header names array i
Owner(os, i) ==
    CHOOSE h \in DOMAIN os :
        /\ os[h].alive /\ os[h].arr = i
        /\ \A g \in DOMAIN os : (os[g].alive /\ os[g].arr = i) => h <= g
Rank(os, i) == Cardinality({j \in UsedArrays(os) : Owner(os, j) <= Owner(os, i)})
Collect(as, os) ==
    [n \in ArrIds |->
        IF \E i \in UsedArrays(os) : Rank(os, i) = n
        THEN LET i == CHOOSE i \in UsedArrays(os) : Rank(os, i) = n
             IN  [j \in 1 .. Len(as[i]) |->
                     IF Reached(os, i, j) THEN as[i][j] ELSE ZeroEntry]
        ELSE <<>>]
Renumber(os) ==
    [h \in DOMAIN os |->
        IF os[h].alive /\ os[h].arr # 0 THEN [os[h] EXCEPT !.arr = Rank(os, @)]
        ELSE os[h]]

\* make([]Entry[V], n, c): a fresh array of c zero entries; no storage when c = 0
Make(as, os, n, c) ==
    IF c = 0
    THEN [arrays |-> as, hd |-> [alive |-> TRUE, arr |-> 0, len |-> 0]]
    ELSE LET id == FreshArray(os)
         IN  [arrays |-> [as EXCEPT ![id] = [i \in 1 .. c |-> ZeroEntry]],
              hd     |-> [alive |-> TRUE, arr |-> id, len |-> n]]

\* the capacity growslice picks when one more element does not fit
GrowCap(old) == IF old = 0 THEN 1 ELSE 2 * old

\* append(s, e): in place when there is room, else into a fresh larger array
AppendEntry(as, os, hd, e) ==
    IF hd.len < CapOf(as, hd)
    THEN [arrays |-> [as EXCEPT ![hd.arr][hd.len + 1] = e],
          hd     |-> [hd EXCEPT !.len = hd.len + 1]]
    ELSE LET id  == FreshArray(os)
             new == [i \in 1 .. GrowCap(CapOf(as, hd)) |->
                        IF i <= hd.len THEN ArrayOf(as, hd)[i]
                        ELSE IF i = hd.len + 1 THEN e ELSE ZeroEntry]
         IN  [arrays |-> [as EXCEPT ![id] = new],
              hd     |-> [hd EXCEPT !.arr = id, !.len = hd.len + 1]]

(***************************************************************************)
(* The container's operations, as functions of the heap.  Each takes the   *)
(* arrays `as`, the headers `os` and the receiver's handle h, and returns  *)
(* the arrays and headers it leaves.                                       *)
(***************************************************************************)
Heap(as, os) == [arrays |-> Collect(as, os), objs |-> Renumber(os)]

\* what every live container shows: handle -> its entry sequence
View(as, os) == [h \in Handles |-> IF os[h].alive THEN EntriesOf(as, os[h]) ELSE <<>>]

\* findKeyIndex: the 0-based index of the first entry holding key, or -1
findKeyIndex(es, key) ==
    IF \E i \in 1 .. Len(es) : es[i].Key = key
    THEN (CHOOSE i \in 1 .. Len(es) :
             /\ es[i].Key = key
             /\ \A j \in 1 .. (i - 1) : es[j].Key # key) - 1
    ELSE -1

\* NewObject(capacity...)
NewObject(as, os, h, capacity) ==
    LET dropped == [os EXCEPT ![h].alive = FALSE]
        m       == Make(as, dropped, 0, capacity)
    IN  Heap(m.arrays, [os EXCEPT ![h] = m.hd])

\* the mutant of Set that appends without looking the key up
SetAlwaysAppends(as, os, h, key, value) ==
    LET r == AppendEntry(as, os, os[h], Entry(key, value))
    IN  Heap(r.arrays, [os EXCEPT ![h] = r.hd])

\* object.Set(key, value)
Set(as, os, h, key, value) ==
    LET idx == findKeyIndex(EntriesOf(as, os[h]), key)
    IN  IF idx >= 0
        THEN Heap([as EXCEPT ![os[h].arr][idx + 1].Value = value], os)
        ELSE LET r == AppendEntry(as, os, os[h], Entry(key, value))
             IN  Heap(r.arrays, [os EXCEPT ![h] = r.hd])

\* the mutant of Get that takes index 0 for "not found"
GetMissesIndexZero(as, os, h, key) ==
    LET es  == EntriesOf(as, os[h])
        idx == findKeyIndex(es, key)
    IN  IF idx > 0 THEN [value |-> es[idx + 1].Value, found |-> TRUE]
        ELSE [value |-> Nil, found |-> FALSE]

\* object.Get(key): the value and the found flag
Get(as, os, h, key) ==
    LET es  == EntriesOf(as, os[h])
        idx == findKeyIndex(es, key)
    IN  IF idx >= 0 THEN [value |-> es[idx + 1].Value, found |-> TRUE]
        ELSE [value |-> Nil, found |-> FALSE]

\* object.Has(key)
Has(as, os, h, key) == findKeyIndex(EntriesOf(as, os[h]), key) >= 0

\* object.Delete(key): append(entries[:idx], entries[idx+1:]...) moves the
\* tail one slot down inside the same array and shortens the header; the
\* slot that was last keeps its old content.
Delete(as, os, h, key) ==
    LET hd  == os[h]
        idx == findKeyIndex(EntriesOf(as, hd), key)
        old == ArrayOf(as, hd)
        new == [i \in 1 .. Len(old) |->
                   IF i > idx /\ i < hd.len THEN old[i + 1] ELSE old[i]]
    IN  IF idx >= 0
        THEN Heap([as EXCEPT ![hd.arr] = new], [os EXCEPT ![h].len = hd.len - 1])
        ELSE Heap(as, os)

\* object.Length()
Length(as, os, h) == os[h].len

\* object.Keys()
KeysOf(as, os, h) ==
    LET es == EntriesOf(as, os[h]) IN [i \in 1 .. Len(es) |-> es[i].Key]

\* object.Values()
ValuesOf(as, os, h) ==
    LET es == EntriesOf(as, os[h]) IN [i \in 1 .. Len(es) |-> es[i].Value]

\* object.Entries()
Entries(as, os, h) == EntriesOf(as, os[h])

\* The accessors once more, as the caller gets them: a slice of its own in
\* the heap, its header stored in the caller's variable dst.
\* make([]T, len(object.entries)), filled with `elems`
MakeFilled(as, os, dst, elems) ==
    LET dropped == [os EXCEPT ![dst].alive = FALSE]
        m       == Make(as, dropped, Len(elems), Len(elems))
        filled  == IF m.hd.arr = 0 THEN m.arrays
                   ELSE [m.arrays EXCEPT ![m.hd.arr] = elems]
    IN  Heap(filled, [os EXCEPT ![dst] = m.hd])
\* dst = object.Keys()
KeysInto(as, os, h, dst) == MakeFilled(as, os, dst, KeysOf(as, os, h))
\* dst = object.Values()
ValuesInto(as, os, h, dst) == MakeFilled(as, os, dst, ValuesOf(as, os, h))
\* the mutant of Entries that returns object.entries itself
EntriesReturnsField(as, os, h, dst) ==
    Heap(as, [os EXCEPT ![dst] = os[h]])
\* dst = object.Entries()
EntriesInto(as, os, h, dst) == MakeFilled(as, os, dst, Entries(as, os, h))

\* the mutant of Clone that copies the slice header, not the array
CloneSharesArray(as, os, src, dst) ==
    Heap(as, [os EXCEPT ![dst] = os[src]])

\* a copy of value v that shares nothing with the heap: a nested container
\* becomes the mapping of its keys to copies of its values
RECURSIVE Detached(_, _, _)
Detached(as, os, v) ==
    IF v.t # "obj" THEN v
    ELSE LET es == EntriesOf(as, os[v.ref])
         IN  MapV([k \in {es[i].Key : i \in 1 .. Len(es)} |->
                     Detached(as, os, es[findKeyIndex(es, k) + 1].Value)])

\* the mutant of Clone that copies the values the entries refer to as well
CloneCopiesNested(as, os, src, dst) ==
    LET es      == EntriesOf(as, os[src])
        dropped == [os EXCEPT ![dst].alive = FALSE]
        m       == Make(as, dropped, Len(es), Len(es))
        filled  == IF m.hd.arr = 0 THEN m.arrays
                   ELSE [m.arrays EXCEPT ![m.hd.arr] =
                            [i \in 1 .. Len(es) |->
                                Entry(es[i].Key, Detached(as, os, es[i].Value))]]
    IN  Heap(filled, [os EXCEPT ![dst] = m.hd])

\* the mutant of Clone that hands the entries over to the clone and leaves
\* the source empty
CloneTakesEntries(as, os, src, dst) ==
    IF src = dst THEN Heap(as, os)
    ELSE Heap(as, [os EXCEPT ![dst] = os[src], ![src].len = 0])

\* object.Clone(), the result stored in dst: a fresh array of exactly len
\* slots, the entries copied into it
Clone(as, os, src, dst) ==
    LET es      == EntriesOf(as, os[src])
        dropped == [os EXCEPT ![dst].alive = FALSE]
        m       == Make(as, dropped, Len(es), Len(es))
        filled  == IF m.hd.arr = 0 THEN m.arrays
                   ELSE [m.arrays EXCEPT ![m.hd.arr] = es]
    IN  Heap(filled, [os EXCEPT ![dst] = m.hd])

\* FromMap(m), the result stored in h; order is the order in which range
\* hands out the keys of m
RECURSIVE SetAll(_, _, _, _)
SetAll(r, h, m, order) ==
    IF order = <<>> THEN r
    ELSE SetAll(Set(r.arrays, r.objs, h, Head(order), m[Head(order)]), h, m, Tail(order))
FromMap(as, os, h, m, order) ==
    SetAll(NewObject(as, os, h, Len(order)), h, m, order)

(***************************************************************************)
(* JSON text and the jsontext tokenizer.  A text is a sequence of lexemes: *)
(* the six punctuation marks, white space, and string, number and null     *)
(* literals as they are spelled in the bytes.  Two spellings may denote    *)
(* the same string or the same number.                                     *)
(***************************************************************************)
WS == " "
NL == "\n"
StrLits == {"\"a\"", "\"b\"", "\"c\"", "\"\\u0061\""}
NumLits == {"1", "2", "1.0"}

\* the Go string a string literal denotes
Unquote(l) ==
    CASE l = "\"a\"" -> "a" [] l = "\"\\u0061\"" -> "a"
      [] l = "\"b\"" -> "b" [] l = "\"c\"" -> "c" [] OTHER -> ""
\* the literal the encoder writes for a Go string
Quote(str) ==
    CASE str = "a" -> "\"a\"" [] str = "b" -> "\"b\""
      [] str = "c" -> "\"c\"" [] OTHER -> "\"\""
\* the float64 a number literal parses to
NumVal(l) == CASE l = "1" -> 1 [] l = "1.0" -> 1 [] l = "2" -> 2 [] OTHER -> 0
\* the literal the encoder writes for a number
FormatNum(n) == CASE n = 1 -> "1" [] n = 2 -> "2" [] OTHER -> "0"

\* jsontext.Kind of the token a lexeme starts; "invalid" is Kind 0
KindOf(l) ==
    CASE l \in {"{", "}", "[", "]"} -> l
      [] l \in StrLits -> "\""
      [] l \in NumLits -> "0"
      [] l = "null" -> "n"
      [] OTHER -> "invalid"

\* jsontext.Token: its kind and, for a literal, the value it carries
Tok(kind, v) == [kind |-> kind, v |-> v]
BeginObject == Tok("{", Nil)
EndObject == Tok("}", Nil)
BeginArray == Tok("[", Nil)
EndArray == Tok("]", Nil)
String(str) == Tok("\"", Str(str))
NoTok == Tok("invalid", Nil)
TokOfLexeme(l) ==
    CASE KindOf(l) = "\"" -> String(Unquote(l))
      [] KindOf(l) = "0" -> Tok("0", Num(NumVal(l)))
      [] OTHER -> Tok(KindOf(l), Nil)
LexemeOfTok(tok) ==
    CASE tok.kind = "\"" -> Quote(tok.v.s)
      [] tok.kind = "0" -> FormatNum(tok.v.n)
      [] tok.kind = "n" -> "null"
      [] OTHER -> tok.kind

\* errors: what went wrong and, for the package's two errors, the kind seen
Err(e, got) == [e |-> e, got |-> got, wrapped |-> FALSE]
NoErr == Err("", "")
ErrExpectedObjectStart == "expected object start"
ErrExpectedStringKey == "expected string key"

\* The state machine jsontext keeps for both directions: one frame per open
\* object or array, with the number of names and values seen in it and, for
\* an object, the names.
Frame(kind) == [kind |-> kind, n |-> 0, names |-> {}]
NeedName(stack) ==
    /\ stack # <<>>
    /\ stack[Len(stack)].kind = "{"
    /\ stack[Len(stack)].n % 2 = 0
\* stateMachine.needDelim: the delimiter that must precede a token of kind next
NeedDelim(stack, next) ==
    IF stack = <<>> THEN ""
    ELSE LET f == stack[Len(stack)]
         IN  IF f.kind = "{" /\ f.n % 2 = 1 THEN ":"
             ELSE IF f.n > 0 /\ next \notin {"}", "]"} THEN ","
             ELSE ""
\* count one more name or value in the innermost frame
Bump(stack, name) ==
    IF stack = <<>> THEN stack
    ELSE [stack EXCEPT ![Len(stack)] =
             [@ EXCEPT !.n = @ + 1, !.names = @ \cup name]]
\* The state machine's step on a token: the stack it leaves, or the error.
Step(stack, tok, allowDup) ==
    LET top == stack[Len(stack)]
    IN  CASE tok.kind \in {"{", "["} ->
                IF NeedName(stack) THEN [err |-> Err("object name must be a string", ""), stack |-> stack]
                ELSE [err |-> NoErr, stack |-> Append(Bump(stack, {}), Frame(tok.kind))]
          [] tok.kind = "}" ->
                IF stack = <<>> \/ top.kind # "{" \/ top.n % 2 = 1
                THEN [err |-> Err("syntax", ""), stack |-> stack]
                ELSE [err |-> NoErr, stack |-> SubSeq(stack, 1, Len(stack) - 1)]
          [] tok.kind = "]" ->
                IF stack = <<>> \/ top.kind # "["
                THEN [err |-> Err("syntax", ""), stack |-> stack]
                ELSE [err |-> NoErr, stack |-> SubSeq(stack, 1, Len(stack) - 1)]
          [] tok.kind = "\"" ->
                IF NeedName(stack)
                THEN IF ~allowDup /\ tok.v.s \in top.names
                     THEN [err |-> Err("duplicate object member name", ""), stack |-> stack]
                     ELSE [err |-> NoErr, stack |-> Bump(stack, {tok.v.s})]
                ELSE [err |-> NoErr, stack |-> Bump(stack, {})]
          [] tok.kind \in {"0", "n"} ->
                IF NeedName(stack) THEN [err |-> Err("object name must be a string", ""), stack |-> stack]
                ELSE [err |-> NoErr, stack |-> Bump(stack, {})]
          [] OTHER -> [err |-> Err("syntax", ""), stack |-> stack]

\* jsontext.NewDecoder(bytes.NewReader(data), AllowDuplicateNames(allowDup));
\* `toks` logs the tokens read from the decoder
NewDecoder(data, allowDup) ==
    [buf |-> data, pos |-> 1, stack |-> <<>>, allowDup |-> allowDup, toks |-> <<>>]

\* the first position at or after pos that holds no white space
SkipWS(buf, pos) ==
    CHOOSE p \in pos .. (Len(buf) + 1) :
        /\ p = Len(buf) + 1 \/ buf[p] # WS
        /\ \A q \in pos .. (p - 1) : buf[q] = WS

\* What the decoder finds next: white space is skipped, a colon or comma is
\* taken and checked against the one the grammar needs here.
ScanToken(dec, delim, p) ==
    IF p > Len(dec.buf) THEN [err |-> Err("EOF", ""), pos |-> p, kind |-> "invalid"]
    ELSE IF \/ KindOf(dec.buf[p]) = "invalid"
            \/ NeedDelim(dec.stack, KindOf(dec.buf[p])) # delim
    THEN [err |-> Err("syntax", ""), pos |-> p, kind |-> "invalid"]
    ELSE [err |-> NoErr, pos |-> p, kind |-> KindOf(dec.buf[p])]
ScanFrom(dec, p) ==
    IF p > Len(dec.buf) THEN [err |-> Err("EOF", ""), pos |-> p, kind |-> "invalid"]
    ELSE IF dec.buf[p] \in {":", ","}
    THEN ScanToken(dec, dec.buf[p], SkipWS(dec.buf, p + 1))
    ELSE ScanToken(dec, "", p)
Scan(dec) == ScanFrom(dec, SkipWS(dec.buf, dec.pos))

\* dec.PeekKind(): the kind of the next token, "invalid" when there is none
PeekKind(dec) == Scan(dec).kind

\* dec.ReadToken(): the token, the error, and the decoder afterwards
Consume(dec, pos, tok, st) ==
    IF st.err # NoErr THEN [tok |-> NoTok, err |-> st.err, dec |-> dec]
    ELSE [tok |-> tok, err |-> NoErr,
          dec |-> [dec EXCEPT !.pos = pos + 1, !.stack = st.stack,
                              !.toks = Append(@, tok)]]
ReadScanned(dec, sc) ==
    IF sc.err # NoErr THEN [tok |-> NoTok, err |-> sc.err, dec |-> dec]
    ELSE Consume(dec, sc.pos, TokOfLexeme(dec.buf[sc.pos]),
                 Step(dec.stack, TokOfLexeme(dec.buf[sc.pos]), dec.allowDup))
ReadToken(dec) == ReadScanned(dec, Scan(dec))

\* json.UnmarshalDecode(dec, &value) for value of type any: one whole JSON
\* value is read; a number becomes a float64, an array a []any and an
\* object a map[string]any.  Each step hands what it read to the next.
RECURSIVE UnmarshalDecode(_), DecodeValue(_, _), DecodeArray(_, _), DecodeElement(_, _)
RECURSIVE DecodeMembers(_, _), DecodeName(_, _), DecodeMember(_, _, _)
UnmarshalDecode(dec) == DecodeValue(dec, ReadToken(dec))
\* r is the value's first token as ReadToken returned it
DecodeValue(dec, r) ==
    IF r.err # NoErr THEN [val |-> Nil, err |-> r.err, dec |-> r.dec]
    ELSE CASE r.tok.kind \in {"0", "\"", "n"} ->
                 [val |-> r.tok.v, err |-> NoErr, dec |-> r.dec]
           [] r.tok.kind = "[" -> DecodeArray(r.dec, <<>>)
           [] r.tok.kind = "{" -> DecodeMembers(r.dec, [k \in {} |-> Nil])
           [] OTHER -> [val |-> Nil, err |-> Err("syntax", ""), dec |-> dec]
DecodeArray(dec, acc) ==
    IF PeekKind(dec) = "]"
    THEN [val |-> ArrV(acc), err |-> NoErr, dec |-> ReadToken(dec).dec]
    ELSE DecodeElement(acc, UnmarshalDecode(dec))
\* v is the element as decoded
DecodeElement(acc, v) ==
    IF v.err # NoErr THEN v ELSE DecodeArray(v.dec, Append(acc, v.val))
DecodeMembers(dec, m) ==
    IF PeekKind(dec) = "}"
    THEN [val |-> MapV(m), err |-> NoErr, dec |-> ReadToken(dec).dec]
    ELSE DecodeName(m, ReadToken(dec))
\* k is the member's name as ReadToken returned it
DecodeName(m, k) ==
    IF k.err # NoErr THEN [val |-> Nil, err |-> k.err, dec |-> k.dec]
    ELSE DecodeMember(m, k.tok.v.s, UnmarshalDecode(k.dec))
\* v is the member's value as decoded; a later member of the same name
\* replaces the earlier one in the map
DecodeMember(m, name, v) ==
    IF v.err # NoErr THEN v
    ELSE DecodeMembers(v.dec, [x \in (DOMAIN m) \cup {name} |->
                                  IF x = name THEN v.val ELSE m[x]])

(***************************************************************************)
(* Decoding into the container.                                            *)
(***************************************************************************)
\* what UnmarshalJSONFrom leaves when it returns err
Returned(as, os, err, dec) == [arrays |-> as, objs |-> os, err |-> err, dec |-> dec]

\* UnmarshalJSONFrom's loop over the key-value pairs (lines 218-237) and
\* its read of the closing brace (lines 240-244)
RECURSIVE UnmarshalPairs(_, _, _, _), UnmarshalKey(_, _, _, _)
RECURSIVE UnmarshalValue(_, _, _, _, _), UnmarshalAppend(_, _, _, _)
\* the mutant of lines 240-242 that reads one more token after the brace
UnmarshalCloseReadsOn(as, os, c) == Returned(as, os, c.err, ReadToken(c.dec).dec)

UnmarshalClose(as, os, c) == Returned(as, os, c.err, c.dec)
\* the mutant of the loop that returns when it sees the closing brace and
\* leaves the brace unread
UnmarshalPairsLeavesBrace(as, os, h, dec) ==
    IF PeekKind(dec) # "}"
    THEN UnmarshalKey(as, os, h, ReadToken(dec))
    ELSE Returned(as, os, NoErr, dec)

UnmarshalPairs(as, os, h, dec) ==
    IF PeekKind(dec) # "}"
    THEN UnmarshalKey(as, os, h, ReadToken(dec))
    ELSE UnmarshalClose(as, os, ReadToken(dec))
\* lines 220-227: k is the key's token as ReadToken returned it
UnmarshalKey(as, os, h, k) ==
    IF k.err # NoErr THEN Returned(as, os, k.err, k.dec)
    ELSE IF k.tok.kind # "\""
    THEN Returned(as, os, Err(ErrExpectedStringKey, k.tok.kind), k.dec)
    ELSE UnmarshalValue(as, os, h, k.tok.v.s, UnmarshalDecode(k.dec))
\* the mutant of line 236 that stores the pair the way Set does, one
\* entry per key
UnmarshalValueBySet(as, os, h, key, v) ==
    IF v.err # NoErr THEN Returned(as, os, v.err, v.dec)
    ELSE UnmarshalPairs(Set(as, os, h, key, v.val).arrays,
                        Set(as, os, h, key, v.val).objs, h, v.dec)

\* the mutant of lines 229-236 that keeps a nested object as an ordered
\* container of its own (held by handle 2) and stores the pointer to it
UnmarshalValueAsContainer(as, os, h, key, v) ==
    IF v.err # NoErr THEN Returned(as, os, v.err, v.dec)
    ELSE IF v.val.t = "map"
    THEN LET order == CHOOSE q \in [1 .. Cardinality(DOMAIN v.val.m) -> DOMAIN v.val.m] :
                          \A i, j \in DOMAIN q : i < j => KeyRank(q[i]) < KeyRank(q[j])
             r     == FromMap(as, os, 2, v.val.m, order)
         IN  UnmarshalAppend(r.objs, h, v.dec,
                             AppendEntry(r.arrays, r.objs, r.objs[h], Entry(key, Ref(2))))
    ELSE UnmarshalAppend(os, h, v.dec, AppendEntry(as, os, os[h], Entry(key, v.val)))

\* the mutant of lines 231-233 that stores the key of the pair whose value
\* failed to decode before it returns the error
UnmarshalValueKeepsKey(as, os, h, key, v) ==
    IF v.err # NoErr
    THEN Returned(AppendEntry(as, os, os[h], Entry(key, Nil)).arrays,
                  [os EXCEPT ![h] = AppendEntry(as, os, os[h], Entry(key, Nil)).hd],
                  v.err, v.dec)
    ELSE UnmarshalAppend(os, h, v.dec, AppendEntry(as, os, os[h], Entry(key, v.val)))

\* lines 230-236: v is the value as json.UnmarshalDecode returned it
UnmarshalValue(as, os, h, key, v) ==
    IF v.err # NoErr THEN Returned(as, os, v.err, v.dec)
    ELSE UnmarshalAppend(os, h, v.dec, AppendEntry(as, os, os[h], Entry(key, v.val)))
\* line 236: r is what append returned
UnmarshalAppend(os, h, dec, r) ==
    UnmarshalPairs(r.arrays, [os EXCEPT ![h] = r.hd], h, dec)

\* the mutant of UnmarshalJSONFrom that does not look at the kind of the
\* first token
UnmarshalObjectUnchecked(as, os, h, t) ==
    IF t.err # NoErr THEN Returned(as, os, t.err, t.dec)
    ELSE UnmarshalPairs(as, os, h, t.dec)

\* lines 209-215 and what follows: t is the first token as ReadToken
\* returned it
UnmarshalObject(as, os, h, t) ==
    IF t.err # NoErr THEN Returned(as, os, t.err, t.dec)
    ELSE IF t.tok.kind # "{"
    THEN Returned(as, os, Err(ErrExpectedObjectStart, t.tok.kind), t.dec)
    ELSE UnmarshalPairs(as, os, h, t.dec)

\* the heap a decoding call leaves, with what it returned
Settled(r) ==
    [arrays |-> Collect(r.arrays, r.objs), objs |-> Renumber(r.objs),
     err |-> r.err, dec |-> r.dec]

\* the mutant of UnmarshalJSONFrom that forgets to cut the entries to length
\* 0 and appends to what the container holds
UnmarshalWithoutReset(as, os, h, dec) ==
    Settled(UnmarshalObject(as, os, h, ReadToken(dec)))

\* object.UnmarshalJSONFrom(dec): the entries are cut to length 0 in place,
\* then refilled from the tokens of one JSON object
UnmarshalJSONFrom(as, os, h, dec) ==
    Settled(UnmarshalObject(as, [os EXCEPT ![h].len = 0], h, ReadToken(dec)))

\* object.UnmarshalJSON(data)
UnmarshalJSON(as, os, h, data) == UnmarshalJSONFrom(as, os, h, NewDecoder(data, FALSE))

\* FromJSON[any](data), the result stored in h: nil and a wrapped error when
\* decoding fails
NilObject == [alive |-> FALSE, arr |-> 0, len |-> 0]
\* the mutant of lines 64-66 that returns the container with the error
FromJSONReturnsContainer(h, r) ==
    [arrays |-> r.arrays, objs |-> r.objs,
     err |-> IF r.err # NoErr THEN [r.err EXCEPT !.wrapped = TRUE] ELSE NoErr]

FromJSONReturn(h, r) ==
    IF r.err # NoErr
    THEN [arrays |-> Collect(r.arrays, [r.objs EXCEPT ![h] = NilObject]),
          objs   |-> Renumber([r.objs EXCEPT ![h] = NilObject]),
          err    |-> [r.err EXCEPT !.wrapped = TRUE]]
    ELSE [arrays |-> r.arrays, objs |-> r.objs, err |-> NoErr]
FromJSONInto(obj, h, data) ==
    FromJSONReturn(h, UnmarshalJSON(obj.arrays, obj.objs, h, data))
FromJSON(as, os, h, data) == FromJSONInto(NewObject(as, os, h, 0), h, data)

(***************************************************************************)
(* The jsontext encoder and encoding.  A call that writes returns the      *)
(* encoder and the error; the code returns at the first error, so every    *)
(* later write is skipped.                                                 *)
(***************************************************************************)
\* jsontext.NewEncoder: `toks` logs the tokens written, `out` is the text.
\* An encoder over an io.Writer ends every top-level value with a newline;
\* the one json.Marshal uses internally does not.
NewEncoder(allowDup, omitNewline) ==
    [out |-> <<>>, toks |-> <<>>, stack |-> <<>>,
     allowDup |-> allowDup, omitNewline |-> omitNewline]

\* enc.WriteToken(tok)
Written(enc, tok, st, delim) ==
    IF st.err # NoErr THEN [enc |-> enc, err |-> st.err]
    ELSE [enc |-> [enc EXCEPT
                      !.out = @ \o (IF delim = "" THEN <<>> ELSE <<delim>>)
                                \o <<LexemeOfTok(tok)>>
                                \o (IF st.stack = <<>> /\ ~enc.omitNewline
                                    THEN <<NL>> ELSE <<>>),
                      !.toks = Append(@, tok),
                      !.stack = st.stack],
          err |-> NoErr]
WriteToken(enc, tok) ==
    Written(enc, tok, Step(enc.stack, tok, enc.allowDup), NeedDelim(enc.stack, tok.kind))

\* the mutant of the early returns that writes the next token although the
\* step before failed
WriteNextAfterError(r, tok) ==
    IF r.err # NoErr THEN [enc |-> WriteToken(r.enc, tok).enc, err |-> r.err]
    ELSE WriteToken(r.enc, tok)
\* `if err := enc.WriteToken(tok); err != nil { return err }` after a step
\* that left r
WriteNext(r, tok) == IF r.err # NoErr THEN r ELSE WriteToken(r.enc, tok)

\* the mutant of the deterministic order: the keys as one iteration over
\* the map may hand them out, here the last first
RECURSIVE KeysAsIterated(_)
KeysAsIterated(S) ==
    IF S = {} THEN <<>>
    ELSE LET m == CHOOSE k \in S : \A j \in S : KeyRank(k) >= KeyRank(j)
         IN  <<m>> \o KeysAsIterated(S \ {m})

\* the keys of a map in the order json.Deterministic(true) writes them
RECURSIVE SortKeys(_)
SortKeys(S) ==
    IF S = {} THEN <<>>
    ELSE LET m == CHOOSE k \in S : \A j \in S : KeyRank(k) <= KeyRank(j)
         IN  <<m>> \o SortKeys(S \ {m})

\* any(entry.Value).(OrderedMarshaler): only *Object has MarshalJSONTo
IsOrderedMarshaler(v) == v.t = "obj"

RECURSIVE MarshalJSONTo(_, _, _, _), MarshalEntries(_, _, _, _, _)
RECURSIVE MarshalEncode(_, _, _, _), EncodeElems(_, _, _, _, _), EncodeMap(_, _, _, _, _, _)

\* the mutant of the value dispatch that hands every value, nested
\* containers included, to the generic marshaller as a plain mapping
EntryValueAsPlainMap(as, os, v, r) ==
    IF r.err # NoErr THEN r
    ELSE IF v.t = "obj"
    THEN MarshalEncode(as, os, r.enc,
             MapV([k \in {EntriesOf(as, os[v.ref])[i].Key :
                             i \in 1 .. os[v.ref].len} |->
                     EntriesOf(as, os[v.ref])[findKeyIndex(EntriesOf(as, os[v.ref]), k) + 1].Value]))
    ELSE MarshalEncode(as, os, r.enc, v)

\* lines 178-192, after the key's token was written and left r: a value
\* that is an OrderedMarshaler writes itself, any other goes to
\* json.MarshalEncode with Deterministic(true)
EmitEntryValue(as, os, v, r) ==
    IF r.err # NoErr THEN r
    ELSE IF IsOrderedMarshaler(v)
    THEN MarshalJSONTo(as, os, v.ref, r.enc)
    ELSE MarshalEncode(as, os, r.enc, v)

\* the loop of MarshalJSONTo over object.entries, from entry i on; r is
\* what the step before left
MarshalEntries(as, os, es, i, r) ==
    IF r.err # NoErr \/ i > Len(es) THEN r
    ELSE MarshalEntries(as, os, es, i + 1,
             EmitEntryValue(as, os, es[i].Value,
                 WriteToken(r.enc, String(es[i].Key))))

\* the mutant of MarshalJSONTo that hands the entries to the generic
\* marshaller as a plain mapping, which writes the keys sorted
MarshalAsPlainMap(as, os, h, enc) ==
    MarshalEncode(as, os, enc,
        MapV([k \in {EntriesOf(as, os[h])[i].Key : i \in 1 .. os[h].len} |->
                EntriesOf(as, os[h])[findKeyIndex(EntriesOf(as, os[h]), k) + 1].Value]))

\* object.MarshalJSONTo(enc)
MarshalJSONTo(as, os, h, enc) ==
    WriteNext(MarshalEntries(as, os, EntriesOf(as, os[h]), 1,
                  WriteToken(enc, BeginObject)),
              EndObject)

\* the generic marshaller's call of a value's MarshalJSONTo method: an
\* error the method returns comes back wrapped in an error of the
\* marshaller
MarshalerError(r) ==
    IF r.err = NoErr THEN r ELSE [r EXCEPT !.err.wrapped = TRUE]

\* json.MarshalEncode(enc, value, json.Deterministic(true)): the generic
\* marshaller; it too calls MarshalJSONTo on a *Object it meets inside
EncodeElems(as, os, a, i, r) ==
    IF r.err # NoErr \/ i > Len(a) THEN r
    ELSE EncodeElems(as, os, a, i + 1, MarshalEncode(as, os, r.enc, a[i]))
EncodeMember(as, os, v, r) ==
    IF r.err # NoErr THEN r ELSE MarshalEncode(as, os, r.enc, v)
EncodeMap(as, os, m, ks, i, r) ==
    IF r.err # NoErr \/ i > Len(ks) THEN r
    ELSE EncodeMap(as, os, m, ks, i + 1,
             EncodeMember(as, os, m[ks[i]], WriteToken(r.enc, String(ks[i]))))
MarshalEncode(as, os, enc, v) ==
    CASE v.t = "num" -> WriteToken(enc, Tok("0", v))
      [] v.t = "str" -> WriteToken(enc, Tok("\"", v))
      [] v.t = "null" -> WriteToken(enc, Tok("n", Nil))
      [] v.t = "obj" -> MarshalerError(MarshalJSONTo(as, os, v.ref, enc))
      [] v.t = "arr" ->
            WriteNext(EncodeElems(as, os, v.a, 1, WriteToken(enc, BeginArray)),
                      EndArray)
      [] v.t = "map" ->
            WriteNext(EncodeMap(as, os, v.m, SortKeys(DOMAIN v.m), 1,
                          WriteToken(enc, BeginObject)),
                      EndObject)

\* lines 166-169 of MarshalJSON: the bytes written, or nil and the error
Bytes(r) ==
    IF r.err # NoErr THEN [data |-> <<>>, err |-> r.err]
    ELSE [data |-> r.enc.out, err |-> NoErr]

\* object.MarshalJSON(): an encoder over a bytes.Buffer
MarshalJSON(as, os, h) == Bytes(MarshalJSONTo(as, os, h, NewEncoder(FALSE, FALSE)))

\* json.Marshal(value): the generic marshaller on an encoder of its own;
\* it returns what the encoder has written and the error, so after a
\* failure the text written before the rejected token
Marshalled(r) == [data |-> r.enc.out, err |-> r.err]

\* object.ToJSON(), that is json.Marshal(object): the generic marshaller
\* finds MarshalJSONTo and calls it with its own encoder; ToJSON returns
\* json.Marshal's results as they are
ToJSON(as, os, h) == Marshalled(MarshalEncode(as, os, NewEncoder(FALSE, TRUE), Ref(h)))

(***************************************************************************)
(* The calling program.  It holds containers in the variables Handles and  *)
(* a byte slice in `input`, and calls the package's functions, one call    *)
(* per step.  `last` records the call made last: its arguments, what every *)
(* container showed before it, and what it returned.  `cl` records the     *)
(* latest Clone and whether either side was written since.                 *)
(***************************************************************************)
\* the values the program stores with Set
SetValues == {Num(1), Num(2)}

Alive(h) == objs[h].alive

NoCall ==
    [op |-> "none", h |-> 0, key |-> "", val |-> Nil, src |-> 0,
     pre |-> [h \in Handles |-> <<>>], had |-> 0, err |-> NoErr,
     data |-> <<>>, dup |-> FALSE, out |-> <<>>, ret |-> 0, pos |-> 0,
     dec |-> Nil, frames |-> <<>>]

\* a call that changes the entries in place: `pre` is what every container
\* showed before it
Call(op, h, key, val) ==
    [NoCall EXCEPT !.op = op, !.h = h, !.key = key, !.val = val,
                   !.pre = View(arrays, objs), !.had = objs[h].len]
\* a call that fills h anew: `had` is the number of entries h had before
Fill(op, h) ==
    [NoCall EXCEPT !.op = op, !.h = h, !.had = objs[h].len]

NoClone ==
    [on |-> FALSE, src |-> 0, dst |-> 0, srcSnap |-> <<>>, dstSnap |-> <<>>,
     srcOut |-> <<>>, srcTouched |-> FALSE, dstTouched |-> FALSE, ops |-> {}]

\* a call `op` wrote to the container held by h; once both sides of the
\* clone were written to, the record of the clone is dropped
Touch(c, h, op) ==
    LET d == IF ~c.on THEN c
             ELSE IF h = c.src THEN [c EXCEPT !.srcTouched = TRUE, !.ops = @ \cup {op}]
             ELSE IF h = c.dst THEN [c EXCEPT !.dstTouched = TRUE, !.ops = @ \cup {op}]
             ELSE c
    IN  IF d.srcTouched /\ d.dstTouched THEN NoClone ELSE d

\* the program's variable h was assigned another container
Rebind(c, h) == IF c.on /\ h \in {c.src, c.dst} THEN NoClone ELSE c

\* the heap after the call
Mut(r) == arrays' = r.arrays /\ objs' = r.objs
\* the call is recorded in `last`
Loud(c) == last' = c /\ UNCHANGED <<input, trace>>
\* the call is not recorded
Quiet == last' = NoCall /\ UNCHANGED <<input, trace>>

NoObjects == [h \in Handles |-> [alive |-> FALSE, arr |-> 0, len |-> 0]]
NoArrays == [i \in ArrIds |-> <<>>]

Init ==
    /\ arrays = NoArrays
    /\ objs = NoObjects
    /\ input = <<>>
    /\ last = NoCall
    /\ cl = NoClone
    /\ trace = <<>>

\* h = NewObject[any](capacity)
CallNewObject(h, capacity) ==
    /\ Mut(NewObject(arrays, objs, h, capacity))
    /\ Loud([Fill("NewObject", h) EXCEPT !.val = Num(capacity)])
    /\ cl' = Rebind(cl, h)

\* the mutant of `return object` that returns a pointer to another
\* container
ReceiverCopied(h) == (h % Cardinality(Handles)) + 1

\* lines 90 and 115, `return object`: the pointer Set and Delete return
Receiver(h) == h

\* ret = h.Set(key, value)
CallSet(h, key, value) ==
    /\ Alive(h)
    /\ Mut(Set(arrays, objs, h, key, value))
    /\ Loud([Call("Set", h, key, value) EXCEPT !.ret = Receiver(h)])
    /\ cl' = Touch(cl, h, "Set")

\* ret = h.Delete(key)
CallDelete(h, key) ==
    /\ Alive(h)
    /\ Mut(Delete(arrays, objs, h, key))
    /\ Loud([Call("Delete", h, key, Nil) EXCEPT !.ret = Receiver(h)])
    /\ cl' = Touch(cl, h, "Delete")

\* the record of dst = src.Clone()
Cloned(r, src, dst) ==
    IF src = dst THEN NoClone
    ELSE [on |-> TRUE, src |-> src, dst |-> dst,
          srcSnap |-> EntriesOf(arrays, objs[src]),
          dstSnap |-> EntriesOf(r.arrays, r.objs[dst]),
          srcOut |-> ToJSON(arrays, objs, src).data,
          srcTouched |-> FALSE, dstTouched |-> FALSE, ops |-> {}]

\* dst = src.Clone()
CallClone(src, dst) ==
    /\ Alive(src)
    /\ LET r == Clone(arrays, objs, src, dst)
       IN  Mut(r) /\ cl' = Cloned(r, src, dst)
    /\ Loud([Call("Clone", dst, "", Nil) EXCEPT !.src = src])

\* h.UnmarshalJSONFrom(jsontext.NewDecoder(bytes.NewReader(data), opts));
\* dup tells whether opts holds jsontext.AllowDuplicateNames(true); `out`
\* is the sequence of tokens the call read from the decoder, `pos` the
\* place in data where the decoder reads on
CallUnmarshalJSONFrom(h, data, dup) ==
    /\ Alive(h)
    /\ \E r \in {UnmarshalJSONFrom(arrays, objs, h, NewDecoder(data, dup))} :
           /\ Mut(r)
           /\ Loud([Fill("UnmarshalJSONFrom", h) EXCEPT
                        !.data = data, !.dup = dup, !.err = r.err,
                        !.out = r.dec.toks, !.pos = r.dec.pos])
    /\ cl' = Touch(cl, h, "Unmarshal")

\* h.UnmarshalJSON(data)
CallUnmarshalJSON(h, data) ==
    /\ Alive(h)
    /\ \E r \in {UnmarshalJSON(arrays, objs, h, data)} :
           /\ Mut(r)
           /\ Loud([Fill("UnmarshalJSON", h) EXCEPT
                        !.data = data, !.err = r.err, !.out = r.dec.toks])
    /\ cl' = Touch(cl, h, "Unmarshal")

\* h, err = FromJSON[any](data)
CallFromJSON(h, data) ==
    /\ \E r \in {FromJSON(arrays, objs, h, data)} :
           /\ Mut(r)
           /\ Loud([Fill("FromJSON", h) EXCEPT
                        !.data = data, !.err = r.err])
    /\ cl' = Rebind(cl, h)

\* h = FromMap(m), range handing out m's keys in the given order
CallFromMap(h, m, order) ==
    /\ Mut(FromMap(arrays, objs, h, m, order))
    /\ Loud([Fill("FromMap", h) EXCEPT !.val = MapV(m), !.data = order])
    /\ cl' = Rebind(cl, h)

\* data, err = h.ToJSON()
CallToJSON(h) ==
    /\ Alive(h)
    /\ UNCHANGED <<arrays, objs, cl>>
    /\ LET r == ToJSON(arrays, objs, h)
       IN  Loud([Call("ToJSON", h, "", Nil) EXCEPT !.out = r.data, !.err = r.err])

\* data, err = h.MarshalJSON()
CallMarshalJSON(h) ==
    /\ Alive(h)
    /\ UNCHANGED <<arrays, objs, cl>>
    /\ LET r == MarshalJSON(arrays, objs, h)
       IN  Loud([Call("MarshalJSON", h, "", Nil) EXCEPT !.out = r.data, !.err = r.err])

\* err = h.MarshalJSONTo(enc) on a fresh encoder; `out` logs the tokens
\* the encoder was handed
CallMarshalJSONTo(h) ==
    /\ Alive(h)
    /\ UNCHANGED <<arrays, objs, cl>>
    /\ LET r == MarshalJSONTo(arrays, objs, h, NewEncoder(FALSE, TRUE))
       IN  Loud([Call("MarshalJSONTo", h, "", Nil) EXCEPT
                     !.out = r.enc.toks, !.err = r.err])

(***************************************************************************)
(* Spec: one container, every way to make and to change it.  Clone is     *)
(* `c = c.Clone()`.                                                        *)
(***************************************************************************)
\* the texts the program of Spec decodes
SpecTexts ==
    { <<"{", "}">>,
      <<"{", "\"b\"", ":", "2", "}">>,
      <<"{", "\"c\"", ":", "1", ",", WS, "\"a\"", ":", "2", "}">>,
      <<"{", "\"a\"", ":", "1", ",", "\"a\"", ":", "2", "}">>,
      <<"{", "\"a\"", ":", "1", ",", "\"b\"", ":", "2">>,
      <<"[", "1", "]">> }

\* the orders in which range can hand out the keys of a map
KeyOrders ==
    {o \in UNION {[1 .. n -> Keys] : n \in 0 .. Cardinality(Keys)} :
        \A i, j \in DOMAIN o : i # j => o[i] # o[j]}

Next ==
    \/ \E c \in 0 .. MaxCap : CallNewObject(1, c)
    \/ \E k \in Keys, v \in SetValues : CallSet(1, k, v)
    \/ \E k \in Keys : CallDelete(1, k)
    \/ CallClone(1, 1)
    \/ \E t \in SpecTexts, d \in BOOLEAN : CallUnmarshalJSONFrom(1, t, d)
    \/ \E t \in SpecTexts : CallFromJSON(1, t)
    \/ \E o \in KeyOrders :
          \E m \in [{o[i] : i \in DOMAIN o} -> {Num(1)}] : CallFromMap(1, m, o)

Spec == Init /\ [][Next]_vars

(***************************************************************************)
(* SpecSet: a newly constructed container and nothing but Set calls on it; *)
(* `trace` lists the calls.                                                *)
(***************************************************************************)
InitSet ==
    /\ \E c \in 0 .. MaxCap : 
          /\ arrays = NewObject(NoArrays, NoObjects, 1, c).arrays
          /\ objs = NewObject(NoArrays, NoObjects, 1, c).objs
    /\ input = <<>>
    /\ last = NoCall
    /\ cl = NoClone
    /\ trace = <<>>

TraceSet(key, value) ==
    /\ Len(trace) < MaxTrace
    /\ Mut(Set(arrays, objs, 1, key, value))
    /\ trace' = Append(trace, Entry(key, value))
    /\ UNCHANGED <<input, last, cl>>

NextSet == \E k \in Keys, v \in SetValues : TraceSet(k, v)

SpecSet == InitSet /\ [][NextSet]_vars

\* the keys of a sequence of calls, each at its first occurrence
RECURSIVE FirstOccurrences(_)
FirstOccurrences(calls) ==
    IF calls = <<>> THEN <<>>
    ELSE LET front == FirstOccurrences(SubSeq(calls, 1, Len(calls) - 1))
             k     == calls[Len(calls)].Key
         IN  IF \E i \in 1 .. Len(front) : front[i] = k THEN front
             ELSE Append(front, k)

\* C1: after any sequence of Set calls on a newly constructed container,
\* Length() is the number of distinct keys of the sequence and Keys() lists
\* them in the order of their first occurrence.
SetSequenceKeepsFirstOccurrenceOrder ==
    /\ Length(arrays, objs, 1) = Cardinality({trace[i].Key : i \in 1 .. Len(trace)})
    /\ KeysOf(arrays, objs, 1) = FirstOccurrences(trace)

\* a key was set again after a later key had been inserted
SetSequenceRepeatsAnEarlierKey ==
    \E i, j, k \in 1 .. Len(trace) :
        /\ i < j /\ j < k
        /\ trace[i].Key = trace[k].Key
        /\ trace[i].Key # trace[j].Key
        /\ trace[i].Value # trace[k].Value

(***************************************************************************)
(* Claims about single calls, checked under Spec.                          *)
(***************************************************************************)
Pre == last.pre[last.h]
Post == EntriesOf(arrays, objs[last.h])

\* C2: if key k is present at position p, Set(k, v') changes only the
\* value stored at position p; k stays at position p, the length and every
\* other entry are unchanged; and a Set that repeats the key and value of
\* the call before it changes nothing.
SetOverwritesOnlyPositionP ==
    last.op = "Set" =>
        /\ \A p \in 1 .. Len(Pre) :
              Pre[p].Key = last.key =>
                  /\ Len(Post) = Len(Pre)
                  /\ Post[p] = Entry(last.key, last.val)
                  /\ \A q \in 1 .. Len(Pre) : q # p => Post[q] = Pre[q]
        /\ (/\ findKeyIndex(Pre, last.key) >= 0
            /\ Pre[findKeyIndex(Pre, last.key) + 1].Value = last.val) => Post = Pre

\* C3: Delete(k) with k at position p removes that entry, leaves the
\* entries before p as they were, moves every later entry one position to
\* the front and shortens the container by one; Delete of an absent key
\* changes nothing.
DeleteRemovesPositionP ==
    last.op = "Delete" =>
        /\ \A p \in 1 .. Len(Pre) :
              Pre[p].Key = last.key =>
                  /\ Len(Post) = Len(Pre) - 1
                  /\ \A q \in 1 .. (p - 1) : Post[q] = Pre[q]
                  /\ \A q \in (p + 1) .. Len(Pre) : Post[q - 1] = Pre[q]
        /\ (\A p \in 1 .. Len(Pre) : Pre[p].Key # last.key) => Post = Pre

\* no key stands in two entries
UniqueKeys(es) == \A i, j \in 1 .. Len(es) : i # j => es[i].Key # es[j].Key

\* Set was called with a key that two entries of the container held
SetOfKeyHeldTwice ==
    /\ last.op = "Set"
    /\ \E p, q \in 1 .. Len(Pre) :
          p # q /\ Pre[p].Key = last.key /\ Pre[q].Key = last.key

\* Delete was called with a key that two entries of the container held
DeleteOfKeyHeldTwice ==
    /\ last.op = "Delete"
    /\ \E p, q \in 1 .. Len(Pre) :
          p # q /\ Pre[p].Key = last.key /\ Pre[q].Key = last.key

\* What Set and Delete do to a container whose keys are unique is what C2
\* and C3 say; this holds under Spec.
SetAndDeleteOnUniqueKeys ==
    (last.op \in {"Set", "Delete"} /\ UniqueKeys(Pre)) =>
        /\ SetOverwritesOnlyPositionP
        /\ DeleteRemovesPositionP
        /\ UniqueKeys(Post)

\* C4: in every reachable state no key occurs in more than one entry, so
\* Length() is the number of distinct keys.
KeyUniqueness ==
    \A h \in Handles :
        Alive(h) =>
            LET es == EntriesOf(arrays, objs[h])
            IN  /\ UniqueKeys(es)
                /\ Length(arrays, objs, h) = Cardinality({es[i].Key : i \in 1 .. Len(es)})

\* UnmarshalJSONFrom returned no error and left one key in two entries
DecodedOneKeyTwice ==
    /\ last.op = "UnmarshalJSONFrom" /\ last.err = NoErr
    /\ ~UniqueKeys(Post)

\* Keys stay unique under every call but UnmarshalJSONFrom on a decoder that
\* was made with AllowDuplicateNames(true); this holds under Spec.
KeysUniqueUnlessDecoderAllowsDuplicates ==
    (\A h \in Handles : UniqueKeys(last.pre[h])) =>
        \/ \A h \in Handles : UniqueKeys(EntriesOf(arrays, objs[h]))
        \/ last.op = "UnmarshalJSONFrom" /\ last.dup

(***************************************************************************)
(* SpecClone: the program of TestClone.  Handle 1 holds the original c1,   *)
(* handle 2 its clone c2; after c2 = c1.Clone() both are written to.  The  *)
(* calls are not recorded in `last`; `cl` records the clone.               *)
(***************************************************************************)
CloneKeys == {"a", "b"}
CloneTexts ==
    { <<"{", "}">>,
      <<"{", "\"b\"", ":", "2", "}">>,
      <<"[", "1", "]">> }

\* c1 = NewObject[any](capacity)
CloneNewObject(capacity) ==
    /\ Mut(NewObject(arrays, objs, 1, capacity))
    /\ Quiet
    /\ cl' = Rebind(cl, 1)

\* h.Set(key, value)
CloneSet(h, key, value) ==
    /\ Alive(h)
    /\ Mut(Set(arrays, objs, h, key, value))
    /\ Quiet
    /\ cl' = Touch(cl, h, "Set")

\* h.Delete(key)
CloneDelete(h, key) ==
    /\ Alive(h)
    /\ Mut(Delete(arrays, objs, h, key))
    /\ Quiet
    /\ cl' = Touch(cl, h, "Delete")

\* c1.UnmarshalJSON(data)
CloneUnmarshalJSON(data) ==
    /\ Alive(1)
    /\ LET r == UnmarshalJSON(arrays, objs, 1, data)
       IN  Mut(r)
    /\ Quiet
    /\ cl' = Touch(cl, 1, "Unmarshal")

\* c2 = c1.Clone()
CloneClone ==
    /\ Alive(1)
    /\ LET r == Clone(arrays, objs, 1, 2)
       IN  Mut(r) /\ cl' = Cloned(r, 1, 2)
    /\ Quiet

NextClone ==
    \/ \E c \in 0 .. MaxCap : CloneNewObject(c)
    \/ \E h \in {1, 2}, k \in CloneKeys, v \in SetValues : CloneSet(h, k, v)
    \/ \E h \in {1, 2}, k \in CloneKeys : CloneDelete(h, k)
    \/ \E t \in CloneTexts : CloneUnmarshalJSON(t)
    \/ CloneClone

SpecClone == Init /\ [][NextClone]_vars

\* C9: right after c2 = c1.Clone() both hold equal entries and marshal to
\* the same text; and as long as only c2 is written to, by Set and Delete,
\* c1's entries, Length() and marshalled text stay what they were.
CloneLeavesOriginalUnchanged ==
    cl.on =>
        /\ (~cl.srcTouched /\ ~cl.dstTouched) =>
              /\ Entries(arrays, objs, cl.dst) = Entries(arrays, objs, cl.src)
              /\ ToJSON(arrays, objs, cl.dst) = ToJSON(arrays, objs, cl.src)
        /\ ~cl.srcTouched =>
              /\ Entries(arrays, objs, cl.src) = cl.srcSnap
              /\ Length(arrays, objs, cl.src) = Len(cl.srcSnap)
              /\ ToJSON(arrays, objs, cl.src).data = cl.srcOut

\* the clone of a container of two entries was written to by Set and by
\* Delete and no longer holds what the original holds
CloneWasSetAndDeleted ==
    /\ cl.on /\ cl.dstTouched
    /\ cl.ops = {"Set", "Delete"}
    /\ Len(cl.srcSnap) = 2
    /\ Entries(arrays, objs, cl.dst) # cl.dstSnap
    /\ Len(Entries(arrays, objs, cl.dst)) = 2

\* C10: as long as only c1 is written to, by Set, Delete and Unmarshal,
\* c2's entries stay what they were when it was cloned.
OriginalLeavesCloneUnchanged ==
    (cl.on /\ ~cl.dstTouched) =>
        /\ Entries(arrays, objs, cl.dst) = cl.dstSnap
        /\ Length(arrays, objs, cl.dst) = Len(cl.dstSnap)

\* the original of a clone of two entries was written to by Set, by Delete
\* and by Unmarshal and no longer holds what the clone holds
OriginalWasSetDeletedAndRefilled ==
    /\ cl.on /\ cl.srcTouched
    /\ cl.ops = {"Set", "Delete", "Unmarshal"}
    /\ Len(cl.dstSnap) = 2
    /\ Entries(arrays, objs, cl.src) # cl.srcSnap

(***************************************************************************)
(* Reading a JSON text without the decoder: where its first object's keys  *)
(* and values stand.  The claims about the codec compare what the code     *)
(* produced with what these say the text holds.                            *)
(***************************************************************************)
\* the number of objects and arrays open in front of position p
Depth(b, p) ==
    Cardinality({q \in 1 .. (p - 1) : b[q] \in {"{", "["}})
        - Cardinality({q \in 1 .. (p - 1) : b[q] \in {"}", "]"}})

\* the position of the brace that closes the first object, Len(b) + 1 if none
ObjEnd(b) ==
    LET ends == {p \in 1 .. Len(b) : b[p] = "}" /\ Depth(b, p) = 1}
    IN  IF ends = {} THEN Len(b) + 1
        ELSE CHOOSE p \in ends : \A q \in ends : p <= q

\* the positions of the first object's own keys
KeyPositions(b) ==
    {p \in 1 .. ObjEnd(b) :
        /\ Depth(b, p) = 1
        /\ b[p] \in StrLits
        /\ SkipWS(b, p + 1) <= Len(b)
        /\ b[SkipWS(b, p + 1)] = ":"}

\* a set of positions in ascending order
RECURSIVE Ascending(_)
Ascending(S) ==
    IF S = {} THEN <<>>
    ELSE LET m == CHOOSE p \in S : \A q \in S : p <= q
         IN  <<m>> \o Ascending(S \ {m})

\* the first object's keys, as Go strings, in the order of the text
TopKeys(b) ==
    LET ps == Ascending(KeyPositions(b))
    IN  [i \in 1 .. Len(ps) |-> Unquote(b[ps[i]])]

\* the text of the value that follows the key at position p
ValueTextAt(b, p) ==
    LET from == SkipWS(b, p + 1) + 1
        stop == CHOOSE q \in from .. Len(b) :
                    /\ Depth(b, q) = 1 /\ b[q] \in {",", "}"}
                    /\ \A r \in from .. (q - 1) :
                          ~(Depth(b, r) = 1 /\ b[r] \in {",", "}"})
    IN  SubSeq(b, from, stop - 1)

\* the texts of the first object's values, in the order of the text
TopValueTexts(b) ==
    LET ps == Ascending(KeyPositions(b))
    IN  [i \in 1 .. Len(ps) |-> ValueTextAt(b, ps[i])]

\* sequences of lexemes put one after the other
RECURSIVE Flatten(_)
Flatten(ss) == IF ss = <<>> THEN <<>> ELSE Head(ss) \o Flatten(Tail(ss))

\* texts put one after the other with a comma between them
RECURSIVE JoinComma(_)
JoinComma(ss) ==
    IF ss = <<>> THEN <<>>
    ELSE IF Len(ss) = 1 THEN ss[1]
    ELSE ss[1] \o <<",">> \o JoinComma(Tail(ss))

(***************************************************************************)
(* SpecCodec: the program holds one JSON text and one container; it        *)
(* decodes the text into the container in each of the three ways and       *)
(* encodes the container in each of the two ways.                          *)
(***************************************************************************)
\* most members of an object text of SpecCodec
MaxMembers == 2

\* the members the object texts are made of: a key literal and a value text
Members ==
    { <<"\"a\"", <<"1">>>>,
      <<"\"a\"", <<"1.0">>>>,
      <<"\"\\u0061\"", <<"2">>>>,
      <<"\"b\"", <<"\"b\"">>>>,
      <<"\"c\"", <<"null">>>>,
      <<"\"a\"", <<"[", "1", ",", "2", "]">>>>,
      <<"\"b\"", <<"{", "\"a\"", ":", "1", ",", "\"b\"", ":", "2", "}">>>>,
      <<"\"a\"", <<"{", "\"b\"", ":", "1", ",", "\"a\"", ":", "2", "}">>>> }

\* the object text with the given members and no white space
Compact(ms) ==
    <<"{">> \o JoinComma([i \in 1 .. Len(ms) |-> <<ms[i][1], ":">> \o ms[i][2]]) \o <<"}">>
ObjectTexts ==
    {Compact(ms) : ms \in UNION {[1 .. n -> Members] : n \in 0 .. MaxMembers}}
\* a text as it is, with white space after the opening brace, without its
\* closing brace, and with a stray literal after it
Variants(d) ==
    {d, <<"{", WS>> \o Tail(d), SubSeq(d, 1, Len(d) - 1), d \o <<"1">>}
CodecTexts ==
    UNION {Variants(d) : d \in ObjectTexts}
        \cup {<<"[", "1", "]">>, <<"{", "1", ":", "2", "}">>, <<WS, "{", "}", WS>>}

InitCodec ==
    /\ arrays = NoArrays
    /\ objs = NoObjects
    /\ input \in CodecTexts
    /\ last = NoCall
    /\ cl = NoClone
    /\ trace = <<>>

NextCodec ==
    \/ CallNewObject(1, 0)
    \/ CallFromJSON(1, input)
    \/ CallUnmarshalJSON(1, input)
    \/ \E d \in BOOLEAN : CallUnmarshalJSONFrom(1, input, d)
    \/ CallToJSON(1)
    \/ CallMarshalJSON(1)

SpecCodec == InitCodec /\ [][NextCodec]_vars

\* the call made last decoded a text into the container and reported no error
Decoded ==
    /\ last.op \in {"FromJSON", "UnmarshalJSON", "UnmarshalJSONFrom"}
    /\ last.err = NoErr

\* what a value text denotes: the Go value the generic decoder makes of it
ValueOfText(vt) == UnmarshalDecode(NewDecoder(vt, TRUE)).val

\* C6: after a successful Unmarshal or FromJSON the container holds one
\* entry per key-value pair of the text, Keys() is the text's top-level
\* keys in source order, and each entry's value is the pair's value.
UnmarshalKeepsSourceOrder ==
    Decoded =>
        LET b  == last.data
            es == Entries(arrays, objs, last.h)
        IN  /\ Length(arrays, objs, last.h) = Cardinality(KeyPositions(b))
            /\ KeysOf(arrays, objs, last.h) = TopKeys(b)
            /\ \A i \in 1 .. Len(es) :
                  es[i].Value = ValueOfText(TopValueTexts(b)[i])

\* UnmarshalJSON decoded a text whose two keys stand in descending order,
\* into a container that had two entries before
DecodedKeysOutOfSortedOrder ==
    /\ Decoded
    /\ last.op = "UnmarshalJSON"
    /\ last.had = 2
    /\ KeysOf(arrays, objs, last.h) = <<"b", "a">>

\* b is one JSON object and nothing but white space around it
WellFormedObject(b) ==
    LET r == UnmarshalDecode(NewDecoder(b, TRUE))
    IN  /\ r.err = NoErr
        /\ r.val.t = "map"
        /\ \A p \in r.dec.pos .. Len(b) : b[p] = WS

\* a value text is a scalar, an array of scalars, or an object that the
\* deterministic rule writes back as it stands
RoundTrippableValue(vt) ==
    LET v == ValueOfText(vt)
    IN  CASE v.t \in {"num", "str", "null"} -> TRUE
          [] v.t = "arr" -> \A i \in 1 .. Len(v.a) : v.a[i].t \in {"num", "str", "null"}
          [] v.t = "map" ->
                MarshalEncode(arrays, objs, NewEncoder(FALSE, TRUE), v).enc.out = vt
          [] OTHER -> FALSE
RoundTrippableValues(b) ==
    \A i \in 1 .. Len(TopValueTexts(b)) : RoundTrippableValue(TopValueTexts(b)[i])

\* b is spelled the way the encoder spells: no white space, every literal
\* in the encoder's spelling, and no key twice in the object
EncoderSpelling(b) ==
    /\ \A p \in 1 .. Len(b) :
          /\ b[p] # WS
          /\ KindOf(b[p]) \in {"\"", "0"} => LexemeOfTok(TokOfLexeme(b[p])) = b[p]
    /\ \A i, j \in 1 .. Len(TopKeys(b)) : i # j => TopKeys(b)[i] # TopKeys(b)[j]

\* the round trip gives the text back
RoundTripGivesBack(b) ==
    /\ last.err = NoErr
    /\ ToJSON(arrays, objs, last.h) = [data |-> b, err |-> NoErr]

\* C7 as the specification states it: for every well-formed JSON object b
\* whose values are scalars, arrays of scalars or nested objects that the
\* deterministic rule writes back unchanged, Marshal(Unmarshal(b)) = b.
RoundTripOfWellFormedObject ==
    (/\ last.op = "FromJSON"
     /\ WellFormedObject(last.data)
     /\ RoundTrippableValues(last.data)) => RoundTripGivesBack(last.data)

\* C7: for every such b that is also spelled as the encoder spells (no
\* white space, literals in the encoder's spelling, no key twice),
\* json.Marshal(Unmarshal(b)) = b, and MarshalJSON() called directly
\* returns b followed by a newline.
RoundTripOfEncoderSpelledObject ==
    (/\ last.op = "FromJSON"
     /\ WellFormedObject(last.data)
     /\ RoundTrippableValues(last.data)
     /\ EncoderSpelling(last.data)) =>
        /\ RoundTripGivesBack(last.data)
        /\ MarshalJSON(arrays, objs, last.h) = [data |-> last.data \o <<NL>>, err |-> NoErr]

\* FromJSON decoded an encoder-spelled text of two keys in descending order,
\* one of them holding a nested object
RoundTripOfNestedObject ==
    /\ last.op = "FromJSON"
    /\ WellFormedObject(last.data)
    /\ RoundTrippableValues(last.data)
    /\ EncoderSpelling(last.data)
    /\ TopKeys(last.data) = <<"b", "a">>
    /\ \E i \in 1 .. 2 : Entries(arrays, objs, last.h)[i].Value.t = "map"

(***************************************************************************)
(* SpecMarshal: containers nested in containers.  Handle 1 may hold handle *)
(* 2 or a plain map, handle 2 may hold handle 3; all are built with Set    *)
(* and then encoded.  Building is not recorded in `last`, encoding is.     *)
(***************************************************************************)
MarshalKeys == {"a", "b"}
\* a map[string]any value
PlainMap == MapV([k \in MarshalKeys |-> Num(1)])
\* the values the program stores in the container of handle h
MarshalValues(h) ==
    {Num(1)}
        \cup (IF h = 1 THEN {PlainMap} ELSE {})
        \cup {Ref(g) : g \in {x \in Handles : x = h + 1 /\ Alive(x)}}

\* h = NewObject[any]()
MarshalNewObject(h) ==
    /\ ~Alive(h)
    /\ Mut(NewObject(arrays, objs, h, 0))
    /\ Quiet
    /\ UNCHANGED cl

\* h.Set(key, value)
MarshalSet(h, key, value) ==
    /\ Alive(h)
    /\ Mut(Set(arrays, objs, h, key, value))
    /\ Quiet
    /\ UNCHANGED cl

NextMarshal ==
    \/ \E h \in Handles : MarshalNewObject(h)
    \/ \E h \in Handles, k \in MarshalKeys :
          \E v \in MarshalValues(h) : MarshalSet(h, k, v)
    \/ \E h \in Handles : CallToJSON(h)
    \/ \E h \in Handles : CallMarshalJSONTo(h)

SpecMarshal == Init /\ [][NextMarshal]_vars

\* the tokens the emission of one value hands to an encoder
ValueTokens(v) ==
    EmitEntryValue(arrays, objs, v,
        [enc |-> NewEncoder(FALSE, TRUE), err |-> NoErr]).enc.toks

\* C5: MarshalJSONTo writes BeginObject, then for each entry in stored order
\* the String token of the key followed at once by the tokens of the
\* entry's value, then EndObject; for an empty container BeginObject and
\* EndObject only.
MarshalToWritesEntriesInOrder ==
    (last.op = "MarshalJSONTo" /\ last.err = NoErr) =>
        LET es == Entries(arrays, objs, last.h)
        IN  /\ last.out =
                  <<BeginObject>>
                      \o Flatten([i \in 1 .. Len(es) |->
                                     <<String(es[i].Key)>> \o ValueTokens(es[i].Value)])
                      \o <<EndObject>>
            /\ es = <<>> => last.out = <<BeginObject, EndObject>>
            /\ \A i \in 1 .. Len(es) :
                  es[i].Value.t = "num" => ValueTokens(es[i].Value) = <<Tok("0", es[i].Value)>>

\* MarshalJSONTo was called on a container whose keys were inserted in
\* descending order, the first holding a nested container with entries
MarshalToOfDescendingKeys ==
    /\ last.op = "MarshalJSONTo" /\ last.err = NoErr
    /\ LET es == Entries(arrays, objs, last.h)
       IN  /\ KeysOf(arrays, objs, last.h) = <<"b", "a">>
           /\ es[1].Value.t = "obj"
           /\ Len(Entries(arrays, objs, es[1].Value.ref)) = 2
           /\ es[2].Value.t = "num"

\* the text json.Marshal writes for a value that stands alone
ValueText(v) == MarshalEncode(arrays, objs, NewEncoder(FALSE, TRUE), v).enc.out

\* the text of a container: its keys in stored order, each followed by the
\* text of its value, a nested container's text being what that container
\* marshals to by itself
TextInInsertionOrder(h) ==
    LET es == Entries(arrays, objs, h)
    IN  <<"{">>
            \o JoinComma([i \in 1 .. Len(es) |->
                   <<Quote(es[i].Key), ":">>
                       \o (IF es[i].Value.t = "obj"
                           THEN ToJSON(arrays, objs, es[i].Value.ref).data
                           ELSE ValueText(es[i].Value))])
            \o <<"}">>

\* the containers a container holds, at any depth, itself included
RECURSIVE Nested(_)
Nested(h) ==
    LET es == Entries(arrays, objs, h)
    IN  {h} \cup UNION {Nested(es[i].Value.ref) :
                           i \in {j \in 1 .. Len(es) : es[j].Value.t = "obj"}}

\* C8: a value that is itself an ordered container is written by its own
\* MarshalJSONTo, so in the marshalled text the keys of every nested
\* container, at every depth, stand in that container's insertion order.
NestedContainersKeepTheirOrder ==
    (last.op = "ToJSON" /\ last.err = NoErr) =>
        /\ last.out = TextInInsertionOrder(last.h)
        /\ \A g \in Nested(last.h) :
              /\ ToJSON(arrays, objs, g).data = TextInInsertionOrder(g)
              /\ TopKeys(ToJSON(arrays, objs, g).data) = KeysOf(arrays, objs, g)

\* ToJSON was called on a container that holds a container that holds a
\* container, the two nested ones with keys inserted in descending order
NestedTwoDeepDescending ==
    /\ last.op = "ToJSON" /\ last.err = NoErr /\ last.h = 1
    /\ \E i \in 1 .. Len(Entries(arrays, objs, 1)) :
          Entries(arrays, objs, 1)[i].Value = Ref(2)
    /\ KeysOf(arrays, objs, 2) = <<"b", "a">>
    /\ Entries(arrays, objs, 2)[1].Value = Ref(3)
    /\ KeysOf(arrays, objs, 3) = <<"b", "a">>


(***************************************************************************)
(* SpecShallow: a clone of a container that holds a container.  Handle 1   *)
(* holds the original c1, handle 2 its clone c2, handle 3 a container n    *)
(* that c1 may store as a value.  After c2 = c1.Clone() the program gets   *)
(* a value out of c1 or c2 and, when it is a container, writes to it.      *)
(***************************************************************************)
\* the values the program stores in c1 and c2
ShallowValues == {Num(1)} \cup {Ref(3) : x \in {y \in {3} : Alive(y)}}

\* h.Set(key, value): on c1 before it is cloned, on c2 after
ShallowSet(h, key, value) ==
    /\ Alive(h) /\ (h = 1 => ~cl.on)
    /\ Mut(Set(arrays, objs, h, key, value))
    /\ Quiet
    /\ cl' = Touch(cl, h, "Set")

\* n.Set(key, value) by the program's own variable n, before it clones
ShallowFill(key, value) ==
    /\ Alive(3) /\ ~cl.on
    /\ Mut(Set(arrays, objs, 3, key, value))
    /\ Quiet
    /\ UNCHANGED cl

\* v, ok := h.Get(outer); if o, isObj := v.(*Object[any]); ok && isObj
\* { o.Set(key, value) }
ShallowSetNested(h, outer, key, value) ==
    /\ Alive(h)
    /\ LET v == Get(arrays, objs, h, outer)
       IN  /\ v.found /\ v.value.t = "obj"
           /\ Mut(Set(arrays, objs, v.value.ref, key, value))
           /\ Loud([Call("Set", v.value.ref, key, value) EXCEPT !.src = h])
    /\ cl' = Touch(cl, h, "SetNested")

\* the same with o.Delete(key)
ShallowDeleteNested(h, outer, key) ==
    /\ Alive(h)
    /\ LET v == Get(arrays, objs, h, outer)
       IN  /\ v.found /\ v.value.t = "obj"
           /\ Mut(Delete(arrays, objs, v.value.ref, key))
           /\ Loud([Call("Delete", v.value.ref, key, Nil) EXCEPT !.src = h])
    /\ cl' = Touch(cl, h, "DeleteNested")

NextShallow ==
    \/ \E h \in {1, 3} : MarshalNewObject(h)
    \/ \E h \in {1, 2}, k \in CloneKeys : \E v \in ShallowValues : ShallowSet(h, k, v)
    \/ \E k \in CloneKeys : ShallowFill(k, Num(2))
    \/ CloneClone
    \/ \E h \in {1, 2}, o, k \in CloneKeys : ShallowSetNested(h, o, k, Num(2))
    \/ \E h \in {1, 2}, o, k \in CloneKeys : ShallowDeleteNested(h, o, k)

SpecShallow == Init /\ [][NextShallow]_vars

\* since the clone nothing was written but containers reached through c2
OnlyNestedThroughClone ==
    /\ cl.on /\ ~cl.srcTouched
    /\ cl.ops \subseteq {"SetNested", "DeleteNested"}

\* C11: Clone is shallow.  An entry of the clone whose value is a container
\* refers to the very container the original's entry refers to, so after a
\* Set or a Delete on a container reached through the clone, the container
\* reached through the original shows the change.
CloneIsShallow ==
    OnlyNestedThroughClone =>
        LET c1 == Entries(arrays, objs, cl.src)
            c2 == Entries(arrays, objs, cl.dst)
        IN  /\ Len(c1) = Len(c2)
            /\ \A i \in 1 .. Len(c1) :
                  c1[i].Value.t = "obj" =>
                      /\ c2[i].Value = c1[i].Value
                      /\ (last.src = cl.dst /\ last.h = c2[i].Value.ref) =>
                            LET got == Get(arrays, objs, c1[i].Value.ref, last.key)
                            IN  /\ last.op = "Set" => got = [value |-> last.val, found |-> TRUE]
                                /\ last.op = "Delete" => got = [value |-> Nil, found |-> FALSE]

\* a Set on the container reached through the clone changed what the
\* original's entry shows
NestedSetThroughCloneChangedOriginal ==
    /\ OnlyNestedThroughClone
    /\ cl.ops = {"SetNested", "DeleteNested"}
    /\ last.op = "Set" /\ last.src = cl.dst
    /\ \E i \in 1 .. Len(Entries(arrays, objs, cl.src)) :
          /\ Entries(arrays, objs, cl.src)[i].Value = Ref(last.h)
          /\ Get(arrays, objs, last.h, last.key).found
          /\ Entries(arrays, objs, last.h) # last.pre[last.h]

\* C12: Clone returns a deep copy.  No write made through the clone, a
\* write to a container reached through one of the clone's values included,
\* changes what the original shows: its entries and its marshalled text.
CloneIsDeepCopy ==
    (cl.on /\ ~cl.srcTouched) =>
        /\ Entries(arrays, objs, cl.src) = cl.srcSnap
        /\ ToJSON(arrays, objs, cl.src).data = cl.srcOut

\* a Set on a container reached through the clone changed the text the
\* original marshals to
OriginalTextChangedThroughClone ==
    /\ OnlyNestedThroughClone
    /\ last.op = "Set" /\ last.src = cl.dst
    /\ ToJSON(arrays, objs, cl.src).data # cl.srcOut


(***************************************************************************)
(* SpecReturned: the program of TestEntries.  Handle 1 holds the container *)
(* obj; handle 2 is the variable the program stores the slice in that      *)
(* Keys(), Values() or Entries() returned, and then it writes to that      *)
(* slice.  `cl` records what obj showed when the accessor returned.  The   *)
(* container is made and written to by the calls of SpecClone.             *)
(***************************************************************************)
\* the accessors and, for each, the element the program overwrites with
Accessors == {"Keys", "Values", "Entries"}
Overwriting(acc) ==
    CASE acc = "Keys" -> "x" [] acc = "Values" -> Num(99)
      [] acc = "Entries" -> Entry("x", Num(99))

\* ret = obj.Keys(), obj.Values() or obj.Entries()
ReturnedAccessor(acc) ==
    /\ Alive(1)
    /\ LET r == CASE acc = "Keys" -> KeysInto(arrays, objs, 1, 2)
                  [] acc = "Values" -> ValuesInto(arrays, objs, 1, 2)
                  [] acc = "Entries" -> EntriesInto(arrays, objs, 1, 2)
       IN  /\ Mut(r)
           /\ cl' = [Cloned(r, 1, 2) EXCEPT !.ops = {acc}]
    /\ Quiet

\* ret[i] = x
ReturnedOverwrite(i) ==
    /\ cl.on /\ i \in 1 .. objs[2].len
    /\ \E acc \in Accessors \cap cl.ops :
          Mut(Heap([arrays EXCEPT ![objs[2].arr][i] = Overwriting(acc)], objs))
    /\ Quiet
    /\ cl' = Touch(cl, 2, "Overwrite")

\* ret[i], ret[j] = ret[j], ret[i]
ReturnedSwap(i, j) ==
    /\ cl.on /\ {i, j} \subseteq 1 .. objs[2].len /\ i < j
    /\ LET a == arrays[objs[2].arr]
       IN  Mut(Heap([arrays EXCEPT ![objs[2].arr] = [a EXCEPT ![i] = a[j], ![j] = a[i]]],
                    objs))
    /\ Quiet
    /\ cl' = Touch(cl, 2, "Swap")

NextReturned ==
    \/ \E c \in 0 .. MaxCap : CloneNewObject(c)
    \/ \E k \in CloneKeys, v \in SetValues : CloneSet(1, k, v)
    \/ \E k \in CloneKeys : CloneDelete(1, k)
    \/ \E acc \in Accessors : ReturnedAccessor(acc)
    \/ \E i \in 1 .. Cardinality(CloneKeys) : ReturnedOverwrite(i)
    \/ \E i, j \in 1 .. Cardinality(CloneKeys) : ReturnedSwap(i, j)

SpecReturned == Init /\ [][NextReturned]_vars

\* C13: Keys(), Values() and Entries() each return a newly allocated
\* sequence of length Length() that holds the keys, the values, the
\* entries; and as long as the program writes to the returned sequence
\* only, the container's entries and what Get, Keys, Values, Entries and
\* Marshal return stay what they were.
ReturnedSequencesAreIndependent ==
    cl.on =>
        /\ (~cl.srcTouched /\ ~cl.dstTouched) =>
              /\ Len(EntriesOf(arrays, objs[2])) = Length(arrays, objs, 1)
              /\ objs[2].arr = 0 \/ objs[2].arr # objs[1].arr
              /\ "Keys" \in cl.ops => EntriesOf(arrays, objs[2]) = KeysOf(arrays, objs, 1)
              /\ "Values" \in cl.ops => EntriesOf(arrays, objs[2]) = ValuesOf(arrays, objs, 1)
              /\ "Entries" \in cl.ops => EntriesOf(arrays, objs[2]) = Entries(arrays, objs, 1)
        /\ ~cl.srcTouched =>
              /\ Entries(arrays, objs, 1) = cl.srcSnap
              /\ KeysOf(arrays, objs, 1) = [i \in 1 .. Len(cl.srcSnap) |-> cl.srcSnap[i].Key]
              /\ ValuesOf(arrays, objs, 1) = [i \in 1 .. Len(cl.srcSnap) |-> cl.srcSnap[i].Value]
              /\ \A k \in CloneKeys \cup {"x"} :
                    Get(arrays, objs, 1, k) =
                        IF findKeyIndex(cl.srcSnap, k) >= 0
                        THEN [value |-> cl.srcSnap[findKeyIndex(cl.srcSnap, k) + 1].Value,
                              found |-> TRUE]
                        ELSE [value |-> Nil, found |-> FALSE]
              /\ ToJSON(arrays, objs, 1).data = cl.srcOut

\* the slice Entries() returned for a container of two entries was
\* overwritten and reordered and no longer holds what the container holds
ReturnedEntriesOverwrittenAndSwapped ==
    /\ cl.on /\ ~cl.srcTouched
    /\ cl.ops = {"Entries", "Overwrite", "Swap"}
    /\ Len(cl.srcSnap) = 2
    /\ EntriesOf(arrays, objs[2]) # Entries(arrays, objs, 1)


(***************************************************************************)
(* Lookups after Set and Delete, checked under Spec.                       *)
(***************************************************************************)
\* C14: in every reachable state, right after Set(k, v) the call Get(k)
\* returns (v, true); so after Set(k, v1); Set(k, v2) it returns v2.
GetAfterSetReturnsTheValue ==
    last.op = "Set" =>
        Get(arrays, objs, last.h, last.key) = [value |-> last.val, found |-> TRUE]

\* Set was called with a key the container held with another value
SetReplacedAnotherValue ==
    /\ last.op = "Set"
    /\ findKeyIndex(Pre, last.key) >= 0
    /\ Pre[findKeyIndex(Pre, last.key) + 1].Value # last.val
    /\ Len(Pre) > 1

\* C15: in every reachable state, containers filled by Unmarshal and
\* FromJSON included, right after Delete(k) the call Has(k) returns false
\* and Get(k) returns found = false.
KeyAbsentAfterDelete ==
    last.op = "Delete" =>
        /\ ~Has(arrays, objs, last.h, last.key)
        /\ ~Get(arrays, objs, last.h, last.key).found

\* Delete returned and the container still has the key
KeyPresentAfterDelete ==
    /\ last.op = "Delete"
    /\ Has(arrays, objs, last.h, last.key)
    /\ Get(arrays, objs, last.h, last.key).found

\* On a container whose keys are unique Delete leaves the key absent;
\* this holds under Spec.
KeyAbsentAfterDeleteOnUniqueKeys ==
    (last.op = "Delete" /\ UniqueKeys(Pre)) => KeyAbsentAfterDelete

(***************************************************************************)
(* SpecLookup: the program of Spec, which also looks keys up.              *)
(***************************************************************************)
\* v, found = h.Get(key)
CallGet(h, key) ==
    /\ Alive(h)
    /\ UNCHANGED <<arrays, objs, cl>>
    /\ LET r == Get(arrays, objs, h, key)
       IN  Loud([Call("Get", h, key, r.value) EXCEPT !.out = <<r.found>>])

\* found = h.Has(key)
CallHas(h, key) ==
    /\ Alive(h)
    /\ UNCHANGED <<arrays, objs, cl>>
    /\ Loud([Call("Has", h, key, Nil) EXCEPT !.out = <<Has(arrays, objs, h, key)>>])

NextLookup ==
    \/ Next
    \/ \E k \in Keys : CallGet(1, k)
    \/ \E k \in Keys : CallHas(1, k)

SpecLookup == Init /\ [][NextLookup]_vars

\* the positions of the entries that hold key k
PositionsOf(es, k) == {i \in 1 .. Len(es) : es[i].Key = k}

\* C16: Get(k) returns the value stored under k and true when k is
\* present, the zero value of V and false when k is absent; and Has(k)
\* is the found flag of Get(k), for every key in every state.
GetReturnsValueAndHasAgrees ==
    /\ last.op = "Get" =>
          LET at == PositionsOf(Post, last.key)
          IN  /\ last.out = <<at # {}>>
              /\ at # {} => \E i \in at : /\ \A j \in at : i <= j
                                          /\ last.val = Post[i].Value
              /\ at = {} => last.val = Nil
              /\ Has(arrays, objs, last.h, last.key) = last.out[1]
    /\ last.op = "Has" =>
          /\ last.out = <<PositionsOf(Post, last.key) # {}>>
          /\ Get(arrays, objs, last.h, last.key).found = last.out[1]
    /\ \A h \in Handles, k \in Keys :
          Alive(h) => Has(arrays, objs, h, k) = Get(arrays, objs, h, k).found

\* Get found the key in the first of two entries, with a value that is
\* not the zero value
GetFoundFirstEntry ==
    /\ last.op = "Get" /\ last.out = <<TRUE>>
    /\ Len(Post) = 2 /\ Post[1].Key = last.key
    /\ last.val = Post[1].Value /\ last.val # Nil


(***************************************************************************)
(* SpecErrors: the program of SpecCodec on texts that are not an object,   *)
(* or are an object with something else than a string where a key stands. *)
(***************************************************************************)
ErrorTexts ==
    { <<"[", "1", ",", "2", "]">>,
      <<"\"a\"">>,
      <<"1">>,
      <<WS, "null">>,
      <<"[", "{", "}", "]">>,
      <<>>,
      <<"]">>,
      <<":", "1">>,
      <<"x">>,
      <<"{", "1", ":", "2", "}">>,
      <<"{", "null", ":", "1", "}">>,
      <<"{", WS, "[", "1", "]", ":", "2", "}">>,
      <<"{", "{", "}", ":", "1", "}">>,
      <<"{", "\"a\"", ":", "1", ",", "2", ":", "1", "}">>,
      <<"{", ",", "}">>,
      <<"{", "x", ":", "1", "}">>,
      <<"{", "}">>,
      <<"{", "\"b\"", ":", "1", ",", "\"a\"", ":", "[", "1", "]", "}">>,
      <<"{", "\"a\"", ":", "1", ",", "\"b\"", ":", "[", "1", ",", "]", "}">>,
      <<"{", "\"b\"", ":", "{", "\"a\"", ":", "1", "}", ",",
             "\"a\"", ":", "{", "1", "}", "}">>,
      <<"{">>,
      <<"{", "\"a\"">>,
      <<"{", "\"a\"", ":", "[", "1">>,
      <<"{", "\"a\"", ":", "1", ",", "\"b\"", ":", "2">> }

InitErrors ==
    /\ arrays = NoArrays
    /\ objs = NoObjects
    /\ input \in ErrorTexts
    /\ last = NoCall
    /\ cl = NoClone
    /\ trace = <<>>

\* the program also fills the container with Set before it decodes into it
NextErrors ==
    \/ NextCodec
    \/ \E k \in CloneKeys : CallSet(1, k, Num(1))

SpecErrors == InitErrors /\ [][NextErrors]_vars

\* the call made last decoded a text into the container
DecodeCall == last.op \in {"FromJSON", "UnmarshalJSON", "UnmarshalJSONFrom"}
\* the kinds of the tokens that can stand alone: array start, string,
\* number, null
ValueStartKinds == {"[", "\"", "0", "n"}
\* the kind of the lexeme at position p of text b, "invalid" past the end
KindAt(b, p) == IF p \in 1 .. Len(b) THEN KindOf(b[p]) ELSE "invalid"
\* the position of the first lexeme of b that is not white space
FirstPos(b) == SkipWS(b, 1)

\* C17: if the first token UnmarshalJSONFrom reads is not BeginObject, as
\* for the input [1,2], decoding fails with ErrExpectedObjectStart and the
\* error reports the kind of the token that was read; and it fails with
\* that error in no other case.
NonObjectFailsWithExpectedObjectStart ==
    DecodeCall =>
        LET kind == KindAt(last.data, FirstPos(last.data))
        IN  /\ kind \in ValueStartKinds =>
                  /\ last.err.e = ErrExpectedObjectStart
                  /\ last.err.got = kind
            /\ last.err.e = ErrExpectedObjectStart => kind \in ValueStartKinds

\* the array [1,2] was decoded into a container that held entries and the
\* call failed with ErrExpectedObjectStart, got '['
ArrayDecodedIntoContainer ==
    /\ last.op = "UnmarshalJSONFrom"
    /\ last.data = <<"[", "1", ",", "2", "]">>
    /\ last.had > 0
    /\ last.err = Err(ErrExpectedObjectStart, "[")

\* the position in b of the first key of the object, or of what stands in
\* its place
FirstKeyPos(b) == SkipWS(b, FirstPos(b) + 1)

\* C18: if inside the object the token found where a key is required is
\* not a String token, as for the input {1:2}, decoding fails with
\* ErrExpectedStringKey and the error reports the kind of that token.
NonStringKeyFailsWithExpectedStringKey ==
    (/\ DecodeCall
     /\ KindAt(last.data, FirstPos(last.data)) = "{"
     /\ KindAt(last.data, FirstKeyPos(last.data)) \in {"0", "n", "[", "{"}) =>
        /\ last.err.e = ErrExpectedStringKey
        /\ last.err.got = KindAt(last.data, FirstKeyPos(last.data))

\* {1:2} was decoded and the call failed with the decoder's own error
NumberKeyRejectedByDecoder ==
    /\ last.op = "UnmarshalJSON"
    /\ last.data = <<"{", "1", ":", "2", "}">>
    /\ last.err = Err("object name must be a string", "")

\* No decoding call returns ErrExpectedStringKey: the decoder refuses a
\* token that is not a string where a name is due before the container
\* sees it.  This holds under SpecErrors and SpecCodec.
ExpectedStringKeyNeverReturned ==
    last.err.e # ErrExpectedStringKey


(***************************************************************************)
(* Repeated keys, checked under SpecCodec.                                 *)
(***************************************************************************)
\* the text is one well-formed object in which a top-level key stands twice
RepeatsAKey(b) ==
    /\ WellFormedObject(b)
    /\ \E i, j \in 1 .. Len(TopKeys(b)) : i # j /\ TopKeys(b)[i] = TopKeys(b)[j]

\* the keys of b in front of the first one that repeats an earlier key
BeforeFirstRepeat(b) ==
    LET ks == TopKeys(b)
        n  == CHOOSE i \in 1 .. Len(ks) :
                  /\ \E j \in 1 .. (i - 1) : ks[j] = ks[i]
                  /\ \A q \in 1 .. (i - 1) : \A j \in 1 .. (q - 1) : ks[j] # ks[q]
    IN  SubSeq(ks, 1, n - 1)

\* C19 as stated: the decoder performs no uniqueness check; when the input
\* object holds a key more than once, Unmarshal succeeds and the container
\* holds one entry per occurrence, in source order.
UnmarshalKeepsRepeatedKeys ==
    (DecodeCall /\ RepeatsAKey(last.data)) =>
        /\ last.err = NoErr
        /\ KeysOf(arrays, objs, last.h) = TopKeys(last.data)

\* C19 as amended: the container checks nothing itself and the decoder
\* decides.  On a decoder that allows duplicate names UnmarshalJSONFrom
\* succeeds and the container holds one entry per occurrence, in source
\* order; UnmarshalJSON, FromJSON and UnmarshalJSONFrom on a decoder with
\* default options fail at the second occurrence of a key with the
\* decoder's error, the entries read before it being left in the container.
DecoderDecidesOnRepeatedKeys ==
    (DecodeCall /\ RepeatsAKey(last.data)) =>
        IF last.op = "UnmarshalJSONFrom" /\ last.dup
        THEN /\ last.err = NoErr
             /\ KeysOf(arrays, objs, last.h) = TopKeys(last.data)
             /\ Length(arrays, objs, last.h) = Cardinality(KeyPositions(last.data))
             /\ ~UniqueKeys(Entries(arrays, objs, last.h))
        ELSE /\ last.err.e = "duplicate object member name"
             /\ last.op = "FromJSON" => ~Alive(last.h)
             /\ last.op # "FromJSON" =>
                   KeysOf(arrays, objs, last.h) = BeforeFirstRepeat(last.data)

\* a decoder that allows duplicate names read an object whose two keys are
\* two spellings of one string, and the container holds the key twice
TwoSpellingsOfOneKeyDecoded ==
    /\ last.op = "UnmarshalJSONFrom" /\ last.dup /\ last.err = NoErr
    /\ Len(last.data) > 1
    /\ last.data[2] = "\"a\"" /\ \E p \in 3 .. Len(last.data) : last.data[p] = "\"\\u0061\""
    /\ KeysOf(arrays, objs, last.h) = <<"a", "a">>


(***************************************************************************)
(* SpecDeterministic: two containers, built apart with Set and Delete from *)
(* different capacities, whose values are numbers, plain maps and arrays   *)
(* that hold plain maps; both are marshalled.                              *)
(***************************************************************************)
\* a []any that holds a map[string]any that holds a map[string]any
ArrayOfMaps == ArrV(<<MapV([k \in {"b", "c"} |-> IF k = "b" THEN PlainMap ELSE Num(1)])>>)
DeterministicValues == {Num(1), PlainMap, ArrayOfMaps}

\* h = NewObject[any](capacity)
DeterministicNewObject(h, capacity) ==
    /\ ~Alive(h)
    /\ Mut(NewObject(arrays, objs, h, capacity))
    /\ Quiet
    /\ UNCHANGED cl

NextDeterministic ==
    \/ \E h \in {1, 2}, c \in {0, MaxCap + 1} : DeterministicNewObject(h, c)
    \/ \E h \in {1, 2}, k \in MarshalKeys, v \in DeterministicValues :
          MarshalSet(h, k, v)
    \/ \E h \in {1, 2}, k \in MarshalKeys : CloneDelete(h, k)
    \/ \E h \in {1, 2} : CallToJSON(h)
    \/ \E h \in {1, 2} : CallMarshalJSON(h)

SpecDeterministic == Init /\ [][NextDeterministic]_vars

\* in the text vt every object has its keys in ascending order
KeysAscendingIn(vt) ==
    \A p \in {q \in 1 .. Len(vt) : vt[q] = "{"} :
        LET ks == TopKeys(SubSeq(vt, p, Len(vt)))
        IN  \A i, j \in 1 .. Len(ks) : i < j => KeyRank(ks[i]) < KeyRank(ks[j])

\* the value holds a plain map, itself or inside an array
HoldsMap(v) == v.t = "map" \/ (v.t = "arr" /\ \E i \in 1 .. Len(v.a) : v.a[i].t = "map")

\* C20: Marshal is deterministic.  Two containers with equal entry
\* sequences marshal to the same text, whatever their capacity and
\* history; and in the text of a value that is or holds a plain map the
\* keys of every map stand in ascending order, all of them, which is the
\* one order that does not depend on the map's iteration order.
MarshalIsDeterministic ==
    /\ \A g, h \in {1, 2} :
          (Alive(g) /\ Alive(h) /\ Entries(arrays, objs, g) = Entries(arrays, objs, h)) =>
              /\ ToJSON(arrays, objs, g) = ToJSON(arrays, objs, h)
              /\ MarshalJSON(arrays, objs, g) = MarshalJSON(arrays, objs, h)
    /\ (last.op \in {"ToJSON", "MarshalJSON"} /\ last.err = NoErr) =>
          LET es == Entries(arrays, objs, last.h)
              vs == TopValueTexts(last.out)
          IN  /\ KeysOf(arrays, objs, last.h) = TopKeys(last.out)
              /\ \A i \in 1 .. Len(es) :
                    /\ HoldsMap(es[i].Value) => KeysAscendingIn(vs[i])
                    /\ es[i].Value.t = "map" =>
                          /\ {TopKeys(vs[i])[j] : j \in 1 .. Len(TopKeys(vs[i]))}
                                 = DOMAIN es[i].Value.m
                          /\ Len(TopKeys(vs[i])) = Cardinality(DOMAIN es[i].Value.m)

\* two containers of different capacity hold the same two entries, a map
\* and an array that holds maps, under keys inserted in descending order,
\* and one was marshalled
EqualContainersOfMapsMarshalled ==
    /\ last.op = "ToJSON" /\ last.err = NoErr
    /\ Alive(1) /\ Alive(2)
    /\ Entries(arrays, objs, 1) = Entries(arrays, objs, 2)
    /\ CapOf(arrays, objs[1]) # CapOf(arrays, objs[2])
    /\ Entries(arrays, objs, 1) = <<Entry("b", PlainMap), Entry("a", ArrayOfMaps)>>


(***************************************************************************)
(* Nested objects in a decoded text, checked under SpecCodec.              *)
(***************************************************************************)
\* the positions in b of the top-level values that are objects
NestedObjectValues(b) ==
    {i \in 1 .. Len(TopValueTexts(b)) : TopValueTexts(b)[i][1] = "{"}

\* C21: FromJSON followed by Marshal gives the input back exactly for
\* objects whose values are nested objects with keys in any order: the key
\* order inside the nested objects survives the round trip.
NestedObjectRoundTrip ==
    (/\ last.op = "FromJSON"
     /\ WellFormedObject(last.data)
     /\ EncoderSpelling(last.data)
     /\ NestedObjectValues(last.data) # {}) =>
        /\ RoundTripGivesBack(last.data)
        /\ \A i \in NestedObjectValues(last.data) :
              TopKeys(TopValueTexts(ToJSON(arrays, objs, last.h).data)[i])
                  = TopKeys(TopValueTexts(last.data)[i])

\* FromJSON decoded a text whose only value is an object with keys b, a and
\* Marshal wrote the object with keys a, b
NestedKeysSortedByRoundTrip ==
    /\ last.op = "FromJSON" /\ last.err = NoErr
    /\ EncoderSpelling(last.data)
    /\ NestedObjectValues(last.data) = {1}
    /\ TopKeys(TopValueTexts(last.data)[1]) = <<"b", "a">>
    /\ TopKeys(TopValueTexts(ToJSON(arrays, objs, last.h).data)[1]) = <<"a", "b">>

\* C22: when FromJSON parses an object whose values are objects, the
\* top-level key order is kept and every nested object is stored as a
\* plain map, which holds the nested keys and their values and no order:
\* marshalled, its keys stand in ascending order whatever the source had.
NestedObjectsBecomePlainMaps ==
    (last.op = "FromJSON" /\ last.err = NoErr) =>
        LET b  == last.data
            es == Entries(arrays, objs, last.h)
        IN  /\ KeysOf(arrays, objs, last.h) = TopKeys(b)
            /\ \A i \in NestedObjectValues(b) :
                  LET vt == TopValueTexts(b)[i]
                  IN  /\ es[i].Value.t = "map"
                      /\ DOMAIN es[i].Value.m = {TopKeys(vt)[j] : j \in 1 .. Len(TopKeys(vt))}
                      /\ \A j \in 1 .. Len(TopKeys(vt)) :
                            es[i].Value.m[TopKeys(vt)[j]] = ValueOfText(TopValueTexts(vt)[j])
                      /\ KeysAscendingIn(TopValueTexts(ToJSON(arrays, objs, last.h).data)[i])

\* FromJSON decoded two nested objects, one with keys a, b and one with
\* keys b, a, into two equal maps
TwoOrdersDecodedToOneMap ==
    /\ last.op = "FromJSON" /\ last.err = NoErr
    /\ NestedObjectValues(last.data) = {1, 2}
    /\ TopKeys(TopValueTexts(last.data)[1]) = <<"b", "a">>
    /\ TopKeys(TopValueTexts(last.data)[2]) = <<"a", "b">>
    /\ KeysOf(arrays, objs, last.h) = <<"a", "b">>
    /\ DOMAIN Entries(arrays, objs, last.h)[1].Value.m
           = DOMAIN Entries(arrays, objs, last.h)[2].Value.m


(***************************************************************************)
(* SpecCalls: one container, made with any capacity hint, filled and       *)
(* changed, looked up, cloned, converted to a map, iterated over with      *)
(* ForEach, and called in chains.                                          *)
(***************************************************************************)
\* object.ToMap(): m[entry.Key] = entry.Value for the entries in order, so
\* the entry that comes last decides the value of a key
ToMap(as, os, h) ==
    LET es == Entries(as, os, h)
    IN  [k \in {es[i].Key : i \in 1 .. Len(es)} |->
            es[CHOOSE i \in 1 .. Len(es) :
                   /\ es[i].Key = k
                   /\ \A j \in 1 .. Len(es) : es[j].Key = k => j <= i].Value]

\* m = h.ToMap()
CallToMap(h) ==
    /\ Alive(h)
    /\ UNCHANGED <<arrays, objs, cl>>
    /\ Loud(Call("ToMap", h, "", MapV(ToMap(arrays, objs, h))))

\* m[key] = value on the map the ToMap call before returned; `val` is the
\* map the program holds
WriteToMap(key, value) ==
    /\ last.op \in {"ToMap", "WriteToMap"}
    /\ UNCHANGED <<arrays, objs, cl>>
    /\ Loud([last EXCEPT !.op = "WriteToMap", !.key = key,
                         !.val = MapV([k \in DOMAIN last.val.m \cup {key} |->
                                          IF k = key THEN value ELSE last.val.m[k]])])

\* the record of a call of a chain
ChainLog(c) == [op |-> c.op, Key |-> c.key, Value |-> c.val]

\* ret = ret.Set(key, value) or ret = ret.Delete(key): the next call of a
\* chain h.Set(..).Set(..).Delete(..) on a newly made container, its
\* receiver the pointer the call before returned.  `src` is the container
\* the chain began on, `pre` what it showed then, `out` the calls of the
\* chain.
Chain(op, key, value) ==
    /\ last.op \in {"Set", "Delete"} /\ last.ret # 0
    /\ last.src = 0 => last.had = 0
    /\ last.src # 0 => Len(last.out) < MaxTrace
    /\ Alive(last.ret)
    /\ Mut(IF op = "Set" THEN Set(arrays, objs, last.ret, key, value)
           ELSE Delete(arrays, objs, last.ret, key))
    /\ last' = [Call(op, last.ret, key, value) EXCEPT
                    !.ret = Receiver(last.ret),
                    !.src = IF last.src = 0 THEN last.h ELSE last.src,
                    !.pre = last.pre,
                    !.out = Append(IF last.src = 0 THEN <<ChainLog(last)>> ELSE last.out,
                                   ChainLog([op |-> op, key |-> key, val |-> value]))]
    /\ cl' = Touch(cl, last.ret, op)
    /\ UNCHANGED <<input, trace>>

\* h.ForEach(fn), the range clause: the slice header is read once; `had`
\* is the number of iterations due, `out` lists the pairs fn was called
\* with
ForEachBegin(h) ==
    /\ Alive(h)
    /\ UNCHANGED <<arrays, objs, cl>>
    /\ Loud(Call("ForEach", h, "", Nil))

\* the mutant of the loop that walks the entries from the last to the
\* first
ForEachCallBackwards ==
    /\ last.op = "ForEach" /\ Len(last.out) < last.had
    /\ UNCHANGED <<arrays, objs, cl>>
    /\ LET entry == ArrayOf(arrays, objs[last.h])[last.had - Len(last.out)]
       IN  Loud([last EXCEPT !.out = Append(@, <<entry.Key, entry.Value>>)])

\* one iteration: fn(entry.Key, entry.Value) for the next entry; fn does
\* not touch the container
ForEachCall ==
    /\ last.op = "ForEach" /\ Len(last.out) < last.had
    /\ UNCHANGED <<arrays, objs, cl>>
    /\ LET entry == ArrayOf(arrays, objs[last.h])[Len(last.out) + 1]
       IN  Loud([last EXCEPT !.out = Append(@, <<entry.Key, entry.Value>>)])

\* the loop is over, ForEach returns
ForEachReturn ==
    /\ last.op = "ForEach" /\ Len(last.out) = last.had
    /\ UNCHANGED <<arrays, objs, cl>>
    /\ Loud([last EXCEPT !.op = "ForEachReturned"])

\* runtime.makeslice: make([]Entry[V], 0, cap) panics when cap is negative
MakePanics(capacity) == capacity < 0

\* h = NewObject[any](capacity) with any capacity hint: when make panics
\* no container is made and h keeps what it held
CallNewObjectHint(h, capacity) ==
    IF MakePanics(capacity)
    THEN /\ UNCHANGED <<arrays, objs, cl>>
         /\ Loud([Fill("NewObject", h) EXCEPT
                      !.val = Num(capacity),
                      !.err = Err("panic: makeslice: cap out of range", "")])
    ELSE CallNewObject(h, capacity)

\* the orders in which range can hand out the keys of a map over CloneKeys
CallsKeyOrders == {o \in KeyOrders : \A i \in DOMAIN o : o[i] \in CloneKeys}

NextCalls ==
    \/ \E c \in -1 .. MaxCap : CallNewObjectHint(1, c)
    \/ \E k \in CloneKeys, v \in SetValues : CallSet(1, k, v)
    \/ \E k \in CloneKeys : CallDelete(1, k)
    \/ CallClone(1, 1)
    \/ \E t \in SpecTexts, d \in BOOLEAN : CallUnmarshalJSONFrom(1, t, d)
    \/ \E o \in CallsKeyOrders :
          \E m \in [{o[i] : i \in DOMAIN o} -> {Num(1)}] : CallFromMap(1, m, o)
    \/ \E k \in CloneKeys : CallGet(1, k) \/ CallHas(1, k)
    \/ CallToMap(1)
    \/ \E k \in CloneKeys : WriteToMap(k, Num(3))
    \/ \E k \in CloneKeys : Chain("Set", k, Num(1)) \/ Chain("Delete", k, Nil)
    \/ ForEachBegin(1)
    \/ ForEachCall
    \/ ForEachReturn

SpecCalls == Init /\ [][NextCalls]_vars

\* FromMap(m) holds exactly the keys of m, each with m's value, in the
\* order the map was iterated in, and ToMap gives m back
FromMapHoldsTheMap ==
    last.op = "FromMap" =>
        /\ {KeysOf(arrays, objs, last.h)[i] : i \in 1 .. Length(arrays, objs, last.h)}
               = DOMAIN last.val.m
        /\ \A k \in DOMAIN last.val.m :
              Get(arrays, objs, last.h, k) = [value |-> last.val.m[k], found |-> TRUE]
        /\ Length(arrays, objs, last.h) = Cardinality(DOMAIN last.val.m)
        /\ KeysOf(arrays, objs, last.h) = last.data
        /\ ToMap(arrays, objs, last.h) = last.val.m

\* the map ToMap returned holds every key of the container with the value
\* Get returns for it
ToMapHoldsWhatGetReturns ==
    last.op = "ToMap" =>
        /\ DOMAIN last.val.m = {k \in Keys : Has(arrays, objs, last.h, k)}
        /\ \A k \in DOMAIN last.val.m :
              Get(arrays, objs, last.h, k) = [value |-> last.val.m[k], found |-> TRUE]

\* a write to the map ToMap returned leaves the container as it was
WriteToMapLeavesContainer ==
    last.op = "WriteToMap" =>
        /\ View(arrays, objs) = last.pre
        /\ last.val.m[last.key] = Num(3)

\* C23: FromMap(m) holds exactly the keys of m with m's values, Length()
\* is |m| and ToMap(FromMap(m)) = m; for every container ToMap() is a fresh
\* map holding every key of the container with the value Get returns, and
\* writing to it does not change the container.
FromMapAndToMapAgree ==
    /\ FromMapHoldsTheMap
    /\ ToMapHoldsWhatGetReturns
    /\ WriteToMapLeavesContainer

\* ToMap of a container that holds a key twice returned the value of the
\* second entry, Get returns the value of the first
ToMapDisagreesWithGet ==
    /\ last.op = "ToMap"
    /\ \E k \in DOMAIN last.val.m :
          /\ Cardinality(PositionsOf(Pre, k)) = 2
          /\ Get(arrays, objs, last.h, k).found
          /\ Get(arrays, objs, last.h, k).value # last.val.m[k]

\* On a container whose keys are unique the statement of C23 holds under
\* SpecCalls.
FromMapAndToMapAgreeOnUniqueKeys ==
    UniqueKeys(Entries(arrays, objs, 1)) => FromMapAndToMapAgree

\* the program wrote to the map of a container that holds the key written
MapOfContainerWritten ==
    /\ last.op = "WriteToMap"
    /\ Has(arrays, objs, last.h, last.key)
    /\ Get(arrays, objs, last.h, last.key).value # Num(3)


\* what Set(k, v) and Delete(k) make of a sequence of entries
SeqSet(es, k, v) ==
    IF PositionsOf(es, k) = {} THEN Append(es, Entry(k, v))
    ELSE [es EXCEPT ![CHOOSE p \in PositionsOf(es, k) :
                          \A q \in PositionsOf(es, k) : p <= q].Value = v]
SeqDelete(es, k) ==
    IF PositionsOf(es, k) = {} THEN es
    ELSE LET p == CHOOSE p \in PositionsOf(es, k) : \A q \in PositionsOf(es, k) : p <= q
         IN  SubSeq(es, 1, p - 1) \o SubSeq(es, p + 1, Len(es))

\* the entries after the calls were made one by one on a container that
\* held es
RECURSIVE RunAlone(_, _)
RunAlone(es, calls) ==
    IF calls = <<>> THEN es
    ELSE RunAlone(IF Head(calls).op = "Set"
                  THEN SeqSet(es, Head(calls).Key, Head(calls).Value)
                  ELSE SeqDelete(es, Head(calls).Key),
                  Tail(calls))

\* C24: Set and Delete return the very container they were called on, so
\* a chain New().Set(a,1).Set(b,2).Delete(a) leaves one container in the
\* state the same calls made one by one on it leave it in.
ChainActsOnOneContainer ==
    /\ last.op \in {"Set", "Delete"} => last.ret = last.h
    /\ (last.op \in {"Set", "Delete"} /\ last.src # 0) =>
          /\ last.h = last.src
          /\ Entries(arrays, objs, last.src) = RunAlone(last.pre[last.src], last.out)

\* the chain Set(a,1).Set(b,1).Delete(a) was made on a new container
ChainOfThreeCalls ==
    /\ last.op = "Delete" /\ last.src = 1 /\ last.pre[1] = <<>>
    /\ Len(last.out) = 3
    /\ last.out[1].op = "Set" /\ last.out[2].op = "Set"
    /\ last.out[1].Key = last.out[3].Key /\ last.out[1].Key # last.out[2].Key
    /\ KeysOf(arrays, objs, 1) = <<last.out[2].Key>>


\* the pairs Keys() and Values() give, position by position
KeysWithValues(as, os, h) ==
    [i \in 1 .. Length(as, os, h) |-> <<KeysOf(as, os, h)[i], ValuesOf(as, os, h)[i]>>]

\* C25: when the callback does not mutate the container, ForEach(fn)
\* calls fn exactly Length() times, once per entry, in stored order: the
\* pairs it has passed so far are the first of Entries(), and when it
\* returns they are Entries() and Keys() paired with Values().
ForEachPassesEntriesInOrder ==
    /\ last.op \in {"ForEach", "ForEachReturned"} =>
          /\ Len(last.out) <= Length(arrays, objs, last.h)
          /\ \A i \in 1 .. Len(last.out) :
                last.out[i] = <<Entries(arrays, objs, last.h)[i].Key,
                                Entries(arrays, objs, last.h)[i].Value>>
    /\ last.op = "ForEachReturned" =>
          /\ Len(last.out) = Length(arrays, objs, last.h)
          /\ last.out = KeysWithValues(arrays, objs, last.h)

\* ForEach returned after it had called fn for two entries with two keys
\* and two values
ForEachReturnedAfterTwoCalls ==
    /\ last.op = "ForEachReturned"
    /\ Len(last.out) = 2
    /\ last.out[1][1] # last.out[2][1]
    /\ last.out[1][2] # last.out[2][2]

\* the operations of the container
ContainerOperations ==
    {"NewObject", "Set", "Get", "Has", "Delete", "Clone", "ToMap",
     "ForEach", "ForEachReturned"}

\* C26: container operations never fail: New with or without a capacity
\* hint, Set, Get, Has, Delete, Length, Keys, Values, Entries, ForEach,
\* Clone and ToMap complete without an error or abort for every argument
\* and every reachable container state.
ContainerOperationsNeverFail ==
    last.op \in ContainerOperations => last.err = NoErr

\* NewObject was called with a negative capacity hint and panicked
NewObjectPanicked ==
    /\ last.op = "NewObject"
    /\ last.val = Num(-1)
    /\ last.err # NoErr

\* With a capacity hint that is not negative no container operation fails;
\* this holds under SpecCalls.
ContainerOperationsNeverFailOnHintsFromZero ==
    (last.op \in ContainerOperations /\ ~(last.op = "NewObject" /\ last.val = Num(-1)))
        => last.err = NoErr


(***************************************************************************)
(* SpecThreads: two threads, each with a container of its own: thread 1    *)
(* works on container 1, thread 2 on container 2, which is a new container *)
(* or a clone of container 1.  A step is one call of one thread, so the    *)
(* behaviours are the interleavings of the two sequences of calls.         *)
(***************************************************************************)
Threads == {1, 2}

NextThreads ==
    \/ \E h \in Threads, c \in {0, MaxCap} : CallNewObject(h, c)
    \/ CallClone(1, 2)
    \/ \E h \in Threads, k \in CloneKeys, v \in SetValues : CallSet(h, k, v)
    \/ \E h \in Threads, k \in CloneKeys : CallDelete(h, k)
    \/ \E h \in Threads, k \in CloneKeys : CallGet(h, k)

SpecThreads == Init /\ [][NextThreads]_vars

\* C27: distinct containers have independent state: whatever the other
\* thread did before, a call of a thread on its own container leaves the
\* other container as it was and makes of its own container what the call
\* makes of the entries it held, so that every interleaving leaves each
\* container in the state its own thread's calls produce when run alone.
ThreadsAreIndependent ==
    /\ last.op \in {"Set", "Delete", "Get"} =>
          \A g \in Handles \ {last.h} : View(arrays, objs)[g] = last.pre[g]
    /\ last.op = "Set" => Post = SeqSet(Pre, last.key, last.val)
    /\ last.op = "Delete" => Post = SeqDelete(Pre, last.key)
    /\ last.op = "Get" =>
          /\ Post = Pre
          /\ last.out = <<PositionsOf(Pre, last.key) # {}>>
          /\ \A p \in PositionsOf(Pre, last.key) : Pre[p].Value = last.val

\* after a clone both threads had written, thread 1 deleted a key that
\* the container of thread 2 keeps, with another value than thread 1 had
ThreadDeletedKeyTheOtherKeeps ==
    /\ last.op = "Delete" /\ last.h = 1
    /\ Len(Pre) = 2 /\ Pre[1].Key = last.key
    /\ Len(Post) = 1
    /\ Len(last.pre[2]) = 2
    /\ Entries(arrays, objs, 2) = last.pre[2]
    /\ Entries(arrays, objs, 2)[1].Key = last.key
    /\ Entries(arrays, objs, 2)[1].Value # Pre[1].Value


(***************************************************************************)
(* What FromJSON returns, checked under SpecErrors.                        *)
(***************************************************************************)
\* what UnmarshalJSON makes of the text on a new container
UnmarshalOfNew(data) ==
    UnmarshalJSON(NewObject(NoArrays, NoObjects, 1, 0).arrays,
                  NewObject(NoArrays, NoObjects, 1, 0).objs, 1, data)

\* C28: FromJSON returns a container exactly when it returns no error: on
\* any decode failure it returns nil, never a partly filled container, and
\* an error that wraps the error UnmarshalJSON returned, so that
\* ErrExpectedObjectStart and ErrExpectedStringKey stay recognisable.
FromJSONReturnsContainerOrError ==
    last.op = "FromJSON" =>
        /\ Alive(last.h) <=> last.err = NoErr
        /\ last.err = NoErr =>
              /\ UnmarshalOfNew(last.data).err = NoErr
              /\ Entries(arrays, objs, last.h)
                     = Entries(UnmarshalOfNew(last.data).arrays,
                               UnmarshalOfNew(last.data).objs, 1)
        /\ last.err # NoErr =>
              /\ View(arrays, objs)[last.h] = <<>>
              /\ last.err.wrapped
              /\ [last.err EXCEPT !.wrapped = FALSE] = UnmarshalOfNew(last.data).err
              /\ \A e \in {ErrExpectedObjectStart, ErrExpectedStringKey} :
                    UnmarshalOfNew(last.data).err.e = e => last.err.e = e

\* FromJSON failed on a text whose first pair UnmarshalJSON stores before
\* it fails, and returned nil
FromJSONDroppedPartlyFilledContainer ==
    /\ last.op = "FromJSON"
    /\ last.err # NoErr /\ last.err.wrapped
    /\ ~Alive(last.h)
    /\ Length(UnmarshalOfNew(last.data).arrays, UnmarshalOfNew(last.data).objs, 1) > 0


(***************************************************************************)
(* The steps of UnmarshalJSONFrom, read off the tokens it took from the    *)
(* decoder.                                                                *)
(***************************************************************************)
\* the number of objects and arrays open after the first i tokens
DepthAfter(toks, i) ==
    Cardinality({j \in 1 .. i : toks[j].kind \in {"{", "["}})
        - Cardinality({j \in 1 .. i : toks[j].kind \in {"}", "]"}})

\* the tokens read while only the top-level object was open: keys, first
\* tokens of values, and the closing brace
TopLevel(toks) == {i \in 2 .. Len(toks) : DepthAfter(toks, i - 1) = 1}
\* the place of token i among them
TopRank(toks, i) == Cardinality({j \in TopLevel(toks) : j <= i})
\* the tokens read where a key or the end is expected, and where a value is
KeyOrEndTokens(toks) == {i \in TopLevel(toks) : TopRank(toks, i) % 2 = 1}
ValueStartTokens(toks) == {i \in TopLevel(toks) : TopRank(toks, i) % 2 = 0}
\* the value that begins with token i was read to its end
ValueComplete(toks, i) == \E j \in i .. Len(toks) : DepthAfter(toks, j) = 1
\* the key tokens of the pairs that were read completely
CompletedKeys(toks) ==
    {i \in KeyOrEndTokens(toks) :
        /\ toks[i].kind = "\""
        /\ i + 1 \in ValueStartTokens(toks)
        /\ ValueComplete(toks, i + 1)}
\* the n-th of a set of token positions
NthOf(S, n) == CHOOSE i \in S : Cardinality({j \in S : j <= i}) = n

\* the entries are the completely read pairs, one entry per pair, in
\* order, under the keys read
OneEntryPerCompletedPair(toks, es) ==
    /\ Len(es) = Cardinality(CompletedKeys(toks))
    /\ \A n \in 1 .. Len(es) : es[n].Key = toks[NthOf(CompletedKeys(toks), n)].v.s

\* the call made last was UnmarshalJSONFrom or UnmarshalJSON
UnmarshalCall == last.op \in {"UnmarshalJSONFrom", "UnmarshalJSON"}

\* C29: UnmarshalJSONFrom follows the state machine Start,
\* ExpectObjectBegin, ExpectKeyOrEnd, ExpectValue, ExpectKeyOrEnd, ...,
\* End: tokens after the first are read only when the first is BeginObject;
\* where a key or the end is expected it reads a String or the closing
\* brace; a value is decoded only right after a String key was read; one
\* entry is appended per completed pair; and it returns without an error
\* only after it has read the closing brace, after which it reads nothing.
UnmarshalFollowsStateMachine ==
    UnmarshalCall =>
        LET toks == last.out
            es   == Entries(arrays, objs, last.h)
        IN  /\ Len(toks) > 1 => toks[1].kind = "{"
            /\ \A i \in KeyOrEndTokens(toks) : toks[i].kind \in {"\"", "}"}
            /\ \A i \in ValueStartTokens(toks) :
                  /\ i - 1 \in KeyOrEndTokens(toks)
                  /\ toks[i - 1].kind = "\""
            /\ OneEntryPerCompletedPair(toks, es)
            /\ \A i \in KeyOrEndTokens(toks) : toks[i].kind = "}" => i = Len(toks)
            /\ last.err = NoErr <=>
                  /\ toks # <<>>
                  /\ Len(toks) \in KeyOrEndTokens(toks)
                  /\ toks[Len(toks)].kind = "}"

\* two pairs, the first with an array for its value, were decoded and the
\* closing brace was read
TwoPairsAndEndRead ==
    /\ UnmarshalCall /\ last.err = NoErr
    /\ Cardinality(CompletedKeys(last.out)) = 2
    /\ \E i \in ValueStartTokens(last.out) : last.out[i].kind = "[" /\ i + 2 < Len(last.out)
    /\ Length(arrays, objs, last.h) = 2

\* what the generic decoder makes of the whole text
Generic == UnmarshalDecode(NewDecoder(last.data, last.dup))

\* C30: decode errors are terminal: once a token read, a key check or a
\* value decode fails, UnmarshalJSONFrom returns that error, the error of a
\* value decode unmodified, reads no further token and appends no further
\* entry; the key of the failing pair is not stored, so the container
\* holds exactly the pairs that were completely decoded before the failure.
DecodeErrorsAreTerminal ==
    (UnmarshalCall /\ last.err # NoErr) =>
        LET toks == last.out
            es   == Entries(arrays, objs, last.h)
        IN  /\ ~last.err.wrapped
            /\ OneEntryPerCompletedPair(toks, es)
            /\ toks = <<>> => (last.err = Generic.err /\ es = <<>>)
            /\ (toks # <<>> /\ toks[1].kind # "{") =>
                  /\ Len(toks) = 1
                  /\ last.err = Err(ErrExpectedObjectStart, toks[1].kind)
            /\ (toks # <<>> /\ toks[1].kind = "{") =>
                  /\ last.err = Generic.err
                  /\ toks = Generic.dec.toks

\* the value of the second pair failed to decode, in a container that held
\* two entries before the call: it holds the first pair only
SecondValueFailed ==
    /\ UnmarshalCall /\ last.err # NoErr
    /\ last.had = 2
    /\ Length(arrays, objs, last.h) = 1
    /\ Cardinality(ValueStartTokens(last.out)) = 2
    /\ Cardinality(KeyOrEndTokens(last.out)) = 2


(***************************************************************************)
(* SpecStream: the program decodes one object from a decoder over a text   *)
(* that may hold more after the object, and then reads the next token from *)
(* the same decoder.                                                       *)
(***************************************************************************)
\* tok, err = dec.ReadToken() on the decoder the UnmarshalJSONFrom call
\* before returned from without an error
CallReadToken ==
    /\ last.op = "UnmarshalJSONFrom" /\ last.err = NoErr
    /\ UNCHANGED <<arrays, objs, cl>>
    /\ LET r == ReadToken([NewDecoder(last.data, last.dup) EXCEPT !.pos = last.pos])
       IN  Loud([last EXCEPT !.op = "ReadToken", !.out = <<r.tok>>,
                             !.err = r.err, !.pos = r.dec.pos])

NextStream ==
    \/ CallNewObject(1, 0)
    \/ \E d \in BOOLEAN : CallUnmarshalJSONFrom(1, input, d)
    \/ CallReadToken

SpecStream == InitCodec /\ [][NextStream]_vars

\* the tokens of the lexemes of b up to position n
TokensUpTo(b, n) ==
    LET ps == Ascending({p \in 1 .. n : b[p] \notin {WS, ":", ","}})
    IN  [i \in 1 .. Len(ps) |-> TokOfLexeme(b[ps[i]])]

\* C31: a successful UnmarshalJSONFrom consumes exactly one JSON object
\* from the decoder: every token from the opening brace through the
\* matching closing brace and none after it, so that what follows the
\* object in the stream is still unread and is what the decoder hands out
\* next.
ConsumesExactlyOneObject ==
    /\ (last.op = "UnmarshalJSONFrom" /\ last.err = NoErr) =>
          /\ last.pos = ObjEnd(last.data) + 1
          /\ last.out = TokensUpTo(last.data, ObjEnd(last.data))
          /\ last.out[1] = BeginObject
          /\ last.out[Len(last.out)] = EndObject
    /\ last.op = "ReadToken" =>
          LET p == SkipWS(last.data, ObjEnd(last.data) + 1)
          IN  IF p > Len(last.data) THEN last.err = Err("EOF", "")
              ELSE /\ last.err = NoErr
                   /\ last.out = <<TokOfLexeme(last.data[p])>>
                   /\ last.pos = p + 1

\* after an object of two pairs was decoded the decoder handed out the
\* number that follows the object in the text
NumberAfterObjectRead ==
    /\ last.op = "ReadToken" /\ last.err = NoErr
    /\ last.out[1].kind = "0"
    /\ Length(arrays, objs, last.h) = 2
    /\ last.pos = Len(last.data) + 1


(***************************************************************************)
(* Decoding into a container that holds entries.                           *)
(***************************************************************************)
\* the pairs of the first object of text b, in source order
PairsOfText(b) ==
    [i \in 1 .. Len(TopKeys(b)) |->
        Entry(TopKeys(b)[i], ValueOfText(TopValueTexts(b)[i]))]

\* C32: Unmarshal replaces, it does not merge: after a successful
\* Unmarshal into a container that held entries, the entry sequence is
\* exactly the pairs of the input in source order, and no entry from
\* before the call is left.
UnmarshalReplaces ==
    (UnmarshalCall /\ last.err = NoErr /\ last.had > 0) =>
        Entries(arrays, objs, last.h) = PairsOfText(last.data)

\* a text of one pair was decoded into a container that held two entries,
\* neither under the key of the text: the container holds the one pair
TwoEntriesReplacedByOnePair ==
    /\ UnmarshalCall /\ last.err = NoErr
    /\ last.had = 2
    /\ Len(PairsOfText(last.data)) = 1
    /\ KeysOf(arrays, objs, last.h) = <<"b">>
    /\ Length(arrays, objs, last.h) = 1


\* the call failed at its first token: the token could not be read, or it
\* is not BeginObject
FailedAtFirstToken ==
    /\ UnmarshalCall /\ last.err # NoErr
    /\ last.out = <<>> \/ (Len(last.out) = 1 /\ last.out[1].kind # "{")

\* C33: the reset happens before the first token is examined: when
\* UnmarshalJSONFrom on a container that holds entries fails at the first
\* token, by a read error or with ErrExpectedObjectStart, the container is
\* left empty, not as it was before the call.
FirstTokenFailureLeavesEmpty ==
    (FailedAtFirstToken /\ last.had > 0) =>
        /\ Length(arrays, objs, last.h) = 0
        /\ Entries(arrays, objs, last.h) = <<>>
        /\ Alive(last.h)

\* the first token of the text could not be read, and the container, which
\* held two entries, is empty
UnreadableTextEmptiedContainer ==
    /\ FailedAtFirstToken
    /\ last.out = <<>>
    /\ last.data # <<>>
    /\ last.err.e # ErrExpectedObjectStart
    /\ last.had = 2
    /\ Length(arrays, objs, last.h) = 0


(***************************************************************************)
(* SpecSteps: UnmarshalJSONFrom step by step, one step per token.  The     *)
(* call begins with the reset and the read of the first token; in every    *)
(* iteration of its loop it reads the key and then, token by token, the    *)
(* value, which it appends with the key when it is complete; at last it    *)
(* reads the closing brace.  While it runs, `last.op` is "Decoding" where  *)
(* a key or the end is due and "DecodingValue" where a value is being      *)
(* read, `last.dec` is the decoder, `last.key` the key read and            *)
(* `last.frames` the arrays and objects of the value that are still open;  *)
(* the program does nothing else.  When the call returns, `last` is the    *)
(* record of an UnmarshalJSONFrom call.                                    *)
(***************************************************************************)
\* the call is running
Running == last.op \in {"Decoding", "DecodingValue"}

\* the call goes on in state op with decoder dec, or returns err
Decoding(c, op, err, dec) ==
    [c EXCEPT !.op = IF err # NoErr THEN "UnmarshalJSONFrom" ELSE op,
              !.err = err, !.dec = dec, !.out = dec.toks, !.pos = dec.pos,
              !.key = IF err # NoErr \/ op # "DecodingValue" THEN "" ELSE @,
              !.frames = IF err # NoErr \/ op # "DecodingValue" THEN <<>> ELSE @]

\* lines 206-215: the reset, the read of the first token and its check
DecodeBegin(h, data, dup) ==
    /\ ~Running
    /\ Alive(h)
    /\ LET t == ReadToken(NewDecoder(data, dup))
           c == [Fill("Decoding", h) EXCEPT !.data = data, !.dup = dup]
       IN  /\ Mut(Heap(arrays, [objs EXCEPT ![h].len = 0]))
           /\ Loud(IF t.err = NoErr /\ t.tok.kind # "{"
                   THEN Decoding(c, "", Err(ErrExpectedObjectStart, t.tok.kind), t.dec)
                   ELSE Decoding(c, "Decoding", t.err, t.dec))
    /\ cl' = Touch(cl, h, "Unmarshal")

\* the mutant of the read of the key that reads nothing and goes round the
\* loop again
DecodeKeyReadsNothing ==
    /\ last.op = "Decoding"
    /\ PeekKind(last.dec) # "}"
    /\ UNCHANGED <<arrays, objs, cl>>
    /\ Loud(last)

\* lines 218-227: the loop goes on, the key is read and checked
DecodeKey ==
    /\ last.op = "Decoding"
    /\ PeekKind(last.dec) # "}"
    /\ UNCHANGED <<arrays, objs, cl>>
    /\ \E k \in {ReadToken(last.dec)} :
           Loud(IF k.err = NoErr /\ k.tok.kind # "\""
                THEN Decoding(last, "", Err(ErrExpectedStringKey, k.tok.kind), k.dec)
                ELSE Decoding([last EXCEPT !.key = IF k.err = NoErr THEN k.tok.v.s ELSE ""],
                              "DecodingValue", k.err, k.dec))

\* json.UnmarshalDecode into an any, token by token: an array or object of
\* the value that is still open, with what it holds so far and, in an
\* object, the name whose value is due
ValueFrame(kind) == [kind |-> kind, acc |-> <<>>, m |-> [k \in {} |-> Nil], name |-> "", named |-> FALSE]
\* value v is complete: it goes into the innermost open array or object
Deliver(fs, v) ==
    LET f == fs[Len(fs)]
    IN  [fs EXCEPT ![Len(fs)] =
            IF f.kind = "[" THEN [f EXCEPT !.acc = Append(@, v)]
            ELSE [f EXCEPT !.m = [x \in (DOMAIN f.m) \cup {f.name} |->
                                     IF x = f.name THEN v ELSE f.m[x]],
                           !.named = FALSE]]
\* the token opens an array or object, names a member, or completes a value
NamesMember(fs, tok) ==
    /\ fs # <<>> /\ fs[Len(fs)].kind = "{" /\ ~fs[Len(fs)].named
    /\ tok.kind = "\""
Completed(fs, tok) ==
    CASE tok.kind = "]" -> ArrV(fs[Len(fs)].acc)
      [] tok.kind = "}" -> MapV(fs[Len(fs)].m)
      [] OTHER -> tok.v
Remaining(fs, tok) ==
    IF tok.kind \in {"]", "}"} THEN SubSeq(fs, 1, Len(fs) - 1) ELSE fs

\* lines 229-236: the next token of the value is read; when it completes
\* the value, the pair is appended
DecodeValueToken ==
    /\ last.op = "DecodingValue"
    /\ UNCHANGED cl
    /\ \E t \in {ReadToken(last.dec)}, fs \in {last.frames} :
           IF t.err # NoErr
           THEN UNCHANGED <<arrays, objs>> /\ Loud(Decoding(last, "", t.err, t.dec))
           ELSE IF t.tok.kind \in {"[", "{"}
           THEN /\ UNCHANGED <<arrays, objs>>
                /\ Loud(Decoding([last EXCEPT !.frames = Append(fs, ValueFrame(t.tok.kind))],
                                 "DecodingValue", NoErr, t.dec))
           ELSE IF NamesMember(fs, t.tok)
           THEN /\ UNCHANGED <<arrays, objs>>
                /\ Loud(Decoding([last EXCEPT !.frames[Len(fs)].name = t.tok.v.s,
                                              !.frames[Len(fs)].named = TRUE],
                                 "DecodingValue", NoErr, t.dec))
           ELSE IF Remaining(fs, t.tok) # <<>>
           THEN /\ UNCHANGED <<arrays, objs>>
                /\ Loud(Decoding([last EXCEPT !.frames = Deliver(Remaining(fs, t.tok),
                                                                 Completed(fs, t.tok))],
                                 "DecodingValue", NoErr, t.dec))
           ELSE LET r == AppendEntry(arrays, objs, objs[last.h],
                                     Entry(last.key, Completed(fs, t.tok)))
                IN  /\ Mut(Heap(r.arrays, [objs EXCEPT ![last.h] = r.hd]))
                    /\ Loud(Decoding(last, "Decoding", NoErr, t.dec))

\* lines 240-244: the loop is over, the closing brace is read
DecodeEnd ==
    /\ last.op = "Decoding"
    /\ PeekKind(last.dec) = "}"
    /\ UNCHANGED <<arrays, objs, cl>>
    /\ \E c \in {ReadToken(last.dec)} :
           Loud(Decoding(last, "UnmarshalJSONFrom", c.err, c.dec))

NextSteps ==
    \/ ~Running /\ CallNewObject(1, 0)
    \/ ~Running /\ \E k \in CloneKeys : CallSet(1, k, Num(1))
    \/ \E d \in BOOLEAN : DecodeBegin(1, input, d)
    \/ DecodeKey
    \/ DecodeValueToken
    \/ DecodeEnd

SpecSteps == InitErrors /\ [][NextSteps]_vars

\* The call runs in one thread, which goes on with its next step as long
\* as there is one.
SpecStepsFair ==
    SpecSteps /\ WF_vars(DecodeKey) /\ WF_vars(DecodeValueToken) /\ WF_vars(DecodeEnd)

\* what the call returns step by step is what UnmarshalJSONFrom returns
StepsAgreeWithUnmarshalJSONFrom ==
    last.op = "UnmarshalJSONFrom" =>
        LET r == UnmarshalJSONFrom(NewObject(NoArrays, NoObjects, 1, 0).arrays,
                                   NewObject(NoArrays, NoObjects, 1, 0).objs,
                                   1, NewDecoder(last.data, last.dup))
        IN  /\ last.err = r.err
            /\ last.out = r.dec.toks
            /\ last.pos = r.dec.pos
            /\ Entries(arrays, objs, last.h) = Entries(r.arrays, r.objs, 1)

\* C34: UnmarshalJSONFrom terminates on every finite token stream, streams
\* that end before the closing brace included: every step of the loop
\* either reads a token, moving on in the text, or returns an error, the
\* read position never passes the end of the text, and so the call always
\* ends, in success or in an error.
UnmarshalTerminates ==
    /\ [][(Running /\ Running')
             => (Len(last'.out) = Len(last.out) + 1 /\ last'.pos > last.pos)]_vars
    /\ [](Running => last.pos <= Len(last.data) + 1)
    /\ Running ~> (last.op = "UnmarshalJSONFrom")

\* the call, begun on a text that ends after its second pair and before
\* the closing brace, returned the decoder's error after two iterations
TruncatedStreamEnded ==
    /\ last.op = "UnmarshalJSONFrom"
    /\ last.err = Err("EOF", "")
    /\ Length(arrays, objs, last.h) = 2
    /\ last.pos = Len(last.data) + 1

(***************************************************************************)
(* SpecObserve: a container, made and written to by NewObject, Set and     *)
(* UnmarshalJSONFrom (which may leave a key twice), is observed by every   *)
(* reading operation.  Clone and the accessors store their result in       *)
(* handle 2.                                                               *)
(***************************************************************************)
\* n = h.Length()
CallLength(h) ==
    /\ Alive(h)
    /\ UNCHANGED <<arrays, objs, cl>>
    /\ Loud([Call("Length", h, "", Num(Length(arrays, objs, h))) EXCEPT !.src = h])

\* dst = src.Keys(), src.Values() or src.Entries(); `out` is the slice
\* returned
CallAccessor(acc, src, dst) ==
    /\ Alive(src)
    /\ LET r == CASE acc = "Keys" -> KeysInto(arrays, objs, src, dst)
                  [] acc = "Values" -> ValuesInto(arrays, objs, src, dst)
                  [] acc = "Entries" -> EntriesInto(arrays, objs, src, dst)
       IN  /\ Mut(r)
           /\ Loud([Call(acc, dst, "", Nil) EXCEPT
                        !.src = src, !.out = EntriesOf(r.arrays, r.objs[dst])])
    /\ cl' = Rebind(cl, dst)

\* the text decoded: a key twice
ObserveTexts == {<<"{", "\"a\"", ":", "1", ",", "\"a\"", ":", "2", "}">>}

NextObserve ==
    \/ CallNewObject(1, 0)
    \/ \E k \in CloneKeys : CallSet(1, k, Num(1))
    \/ \E t \in ObserveTexts : CallUnmarshalJSONFrom(1, t, TRUE)
    \/ \E k \in CloneKeys : CallGet(1, k)
    \/ \E k \in CloneKeys : CallHas(1, k)
    \/ CallLength(1)
    \/ \E acc \in Accessors : CallAccessor(acc, 1, 2)
    \/ ForEachBegin(1)
    \/ ForEachCall
    \/ ForEachReturn
    \/ CallClone(1, 2)
    \/ CallToMap(1)
    \/ CallMarshalJSON(1)
    \/ CallMarshalJSONTo(1)
    \/ CallToJSON(1)

SpecObserve == Init /\ [][NextObserve]_vars

\* the observing operations, by the name their call is recorded under
ObservingOperations ==
    {"Get", "Has", "Length", "Keys", "Values", "Entries", "ForEach",
     "ForEachReturned", "Clone", "ToMap", "MarshalJSON", "MarshalJSONTo", "ToJSON"}
\* the container the last call observed
Observed == IF last.op \in Accessors \cup {"Clone"} THEN last.src ELSE last.h

\* C35: the observing operations Get, Has, Length, Keys, Values, Entries,
\* ForEach (with a callback that does not touch the container), Clone,
\* ToMap, MarshalJSON, MarshalJSONTo and ToJSON leave the container's entry
\* sequence unchanged: after each of them, failed or not, the container
\* holds the entries it held before the call, in the same order.
ObserversLeaveEntries ==
    last.op \in ObservingOperations =>
        /\ Alive(Observed)
        /\ Entries(arrays, objs, Observed) = last.pre[Observed]

\* Clone returned the copy of a container of two entries, which has them
\* still
ClonedContainerKeptTwoEntries ==
    /\ last.op = "Clone" /\ last.src = 1 /\ last.h = 2
    /\ Len(last.pre[1]) = 2
    /\ Entries(arrays, objs, 1) = last.pre[1]
    /\ Entries(arrays, objs, 2) = last.pre[1]

(***************************************************************************)
(* SpecEncode: encoding that fails.  The containers of handles 1 and 2     *)
(* are built with Set and with UnmarshalJSONFrom from a decoder that       *)
(* allows duplicate names, so that they may hold a key twice; handle 1 may *)
(* hold handle 2, directly or in an array.  Handle 1 is then encoded with  *)
(* encoders that reject duplicate names.                                   *)
(***************************************************************************)
\* the values the program stores in the container of handle h
EncodeValues(h) ==
    {Num(1)} \cup (IF h = 1 /\ Alive(2) THEN {Ref(2), ArrV(<<Ref(2)>>)} ELSE {})

NextEncode ==
    \/ \E h \in {1, 2} : MarshalNewObject(h)
    \/ \E h \in {1, 2}, k \in MarshalKeys : \E v \in EncodeValues(h) : MarshalSet(h, k, v)
    \/ \E h \in {1, 2}, t \in ObserveTexts : CallUnmarshalJSONFrom(h, t, TRUE)
    \/ CallMarshalJSONTo(1)
    \/ CallMarshalJSON(1)

SpecEncode == Init /\ [][NextEncode]_vars

\* the encoder's state after it took the tokens toks
RECURSIVE StackAfter(_)
StackAfter(toks) ==
    IF toks = <<>> THEN <<>>
    ELSE Step(StackAfter(SubSeq(toks, 1, Len(toks) - 1)), toks[Len(toks)], TRUE).stack
\* the tokens the container of the last call hands to an encoder that
\* rejects nothing
AllTokens == MarshalJSONTo(arrays, objs, last.h, NewEncoder(TRUE, TRUE)).enc.toks
\* the encoder that rejects duplicate names rejects the token after toks
Rejected(toks, tok) == Step(StackAfter(toks), tok, FALSE).err

\* the tokens toks leave an array open: the next token belongs to a generic
\* value
InGenericValue(toks) ==
    \E i \in 1 .. Len(StackAfter(toks)) : StackAfter(toks)[i].kind = "["

\* C36: encoding fails fast.  When the encoder rejects a token, written for
\* a key or inside a nested ordered value or a generic value,
\* MarshalJSONTo returns the encoder's error, as it is or, from inside a
\* generic value, as the generic marshaller wrapped it; the tokens it has
\* written are the tokens before the first rejected one and no token after
\* it, so the closing EndObject is not written; and MarshalJSON returns
\* that error with no bytes.
EncodingFailsFast ==
    /\ (last.op = "MarshalJSONTo" /\ last.err # NoErr) =>
          LET n == Len(last.out)
          IN  /\ n < Len(AllTokens)
              /\ last.out = SubSeq(AllTokens, 1, n)
              /\ \A i \in 1 .. n : Rejected(SubSeq(AllTokens, 1, i - 1), AllTokens[i]) = NoErr
              /\ [last.err EXCEPT !.wrapped = FALSE] = Rejected(last.out, AllTokens[n + 1])
              /\ last.err.wrapped <=> InGenericValue(last.out)
              /\ StackAfter(last.out) # <<>>
    /\ (last.op = "MarshalJSONTo" /\ last.err = NoErr) =>
          /\ last.out = AllTokens
          /\ \A i \in 1 .. Len(AllTokens) :
                 Rejected(SubSeq(AllTokens, 1, i - 1), AllTokens[i]) = NoErr
    /\ last.op = "MarshalJSON" =>
          /\ last.err = MarshalJSONTo(arrays, objs, last.h, NewEncoder(FALSE, FALSE)).err
          /\ last.err # NoErr => last.out = <<>>

\* MarshalJSONTo failed inside the nested container, two objects open
EncodingFailedInNestedContainer ==
    /\ last.op = "MarshalJSONTo" /\ last.err # NoErr
    /\ Len(StackAfter(last.out)) = 2
    /\ \E i \in 1 .. Length(arrays, objs, 1) : Entries(arrays, objs, 1)[i].Value = Ref(2)

(***************************************************************************)
(* SpecHint: the program makes obj = NewObject(c) with a capacity hint and *)
(* ref = NewObject() without one, in handles 1 and 2, and applies every    *)
(* Set and Delete to obj and then to ref.  A panic ends the program.       *)
(***************************************************************************)
\* the call on obj has not been repeated on ref yet
HintPending ==
    last.h = 1 /\ last.op \in {"NewObject", "Set", "Delete"} /\ last.err = NoErr
HintIdle == ~HintPending /\ last.err = NoErr

NextHint ==
    \/ HintIdle /\ \E c \in -1 .. MaxCap : CallNewObjectHint(1, c)
    \/ HintIdle /\ \E k \in Keys, v \in SetValues : CallSet(1, k, v)
    \/ HintIdle /\ \E k \in Keys : CallDelete(1, k)
    \/ HintPending /\ last.op = "NewObject" /\ CallNewObject(2, 0)
    \/ HintPending /\ last.op = "Set" /\ CallSet(2, last.key, last.val)
    \/ HintPending /\ last.op = "Delete" /\ CallDelete(2, last.key)

SpecHint == Init /\ [][NextHint]_vars

\* Get, Keys, Entries, Length and MarshalJSON return the same on obj and ref
SameResults ==
    /\ Length(arrays, objs, 1) = Length(arrays, objs, 2)
    /\ KeysOf(arrays, objs, 1) = KeysOf(arrays, objs, 2)
    /\ Entries(arrays, objs, 1) = Entries(arrays, objs, 2)
    /\ \A k \in Keys : Get(arrays, objs, 1, k) = Get(arrays, objs, 2, k)
    /\ MarshalJSON(arrays, objs, 1) = MarshalJSON(arrays, objs, 2)
\* both containers were made and took the same calls
HintCompared == HintIdle /\ Alive(1) /\ Alive(2)

\* C37: the capacity hint has no observable effect: NewObject(capacity)
\* returns a container with Length() = 0, and for every capacity hint and
\* every sequence of operations, sequences that insert more keys than the
\* hint included, Get, Keys, Entries, Length and MarshalJSON return what
\* they return on a container made without a hint.
CapacityHintHasNoEffect ==
    /\ (last.op = "NewObject" /\ last.h = 1) =>
          (last.err = NoErr /\ Alive(1) /\ Length(arrays, objs, 1) = 0)
    /\ HintCompared => SameResults

\* NewObject was called with the hint -1 and made no container
HintedNewObjectPanicked ==
    /\ last.op = "NewObject" /\ last.h = 1
    /\ last.val = Num(-1)
    /\ last.err # NoErr
    /\ ~Alive(1)

\* With a capacity hint that is not negative the hint has no observable
\* effect; this holds under SpecHint.
CapacityHintFromZeroHasNoEffect ==
    /\ (last.op = "NewObject" /\ last.h = 1 /\ last.val.n >= 0) =>
          (last.err = NoErr /\ Alive(1) /\ Length(arrays, objs, 1) = 0)
    /\ HintCompared => SameResults

\* obj holds three entries, more than any hint it was made with
HintExceeded ==
    /\ HintCompared
    /\ Length(arrays, objs, 1) = 3
    /\ MaxCap < 3

\* the arrays of obj and ref differ in size
HintedArrayDiffers ==
    /\ HintCompared
    /\ Length(arrays, objs, 1) = 1
    /\ Len(arrays[objs[1].arr]) # Len(arrays[objs[2].arr])

(***************************************************************************)
(* SpecRoundTrip: the round trip of TestToJSON.  The containers of handles *)
(* 1 and 2 are built with Set, handle 1 may hold handle 2; then            *)
(* data = c.ToJSON() and newObj = FromJSON(data), stored in handle 3,      *)
(* after which the containers are only encoded.                            *)
(***************************************************************************)
\* the values the program stores in the container of handle h
RoundTripValues(h) ==
    {Num(1), Num(2)} \cup (IF h = 1 /\ Alive(2) THEN {Ref(2)} ELSE {})

\* newObj, err = FromJSON[any](data) for the data ToJSON just returned
RoundTripFromJSON ==
    /\ last.op = "ToJSON" /\ last.h = 1 /\ last.err = NoErr
    /\ CallFromJSON(3, last.out)

NextRoundTrip ==
    \/ ~Alive(3) /\ \E h \in {1, 2} : MarshalNewObject(h)
    \/ ~Alive(3) /\ \E h \in {1, 2}, k \in MarshalKeys :
                        \E v \in RoundTripValues(h) : MarshalSet(h, k, v)
    \/ CallToJSON(1)
    \/ RoundTripFromJSON

SpecRoundTrip == Init /\ [][NextRoundTrip]_vars

\* FromJSON has decoded what ToJSON returned for the container of handle 1
RoundTripped ==
    /\ last.op = "FromJSON" /\ last.h = 3
    /\ Alive(1)
    /\ last.data = ToJSON(arrays, objs, 1).data

\* C38: ToJSON, then FromJSON[any], then ToJSON is the identity on the
\* output: for every container c built through Set, containers whose values
\* are nested ordered containers included, ToJSON(FromJSON(ToJSON(c)))
\* equals ToJSON(c).
MarshalRoundTripIsIdentity ==
    RoundTripped =>
        /\ last.err = NoErr
        /\ Alive(3)
        /\ ToJSON(arrays, objs, 3) = ToJSON(arrays, objs, 1)

\* the container holds a nested container with the keys b, a; after the
\* round trip the text has them as a, b
NestedContainerSortedByRoundTrip ==
    /\ RoundTripped /\ last.err = NoErr
    /\ Entries(arrays, objs, 1) = <<Entry("a", Ref(2))>>
    /\ KeysOf(arrays, objs, 2) = <<"b", "a">>
    /\ ToJSON(arrays, objs, 3).data # ToJSON(arrays, objs, 1).data
    /\ Entries(arrays, objs, 3)[1].Value.t = "map"

\* the nested containers of the container of handle h hold their keys in
\* ascending order
NestedKeysAscending(h) ==
    \A i \in 1 .. Length(arrays, objs, h) :
        LET v == Entries(arrays, objs, h)[i].Value
        IN  v.t = "obj" => KeysOf(arrays, objs, v.ref) = SortKeys({"a", "b"} \cap
                               {KeysOf(arrays, objs, v.ref)[j] : j \in 1 .. Length(arrays, objs, v.ref)})

\* The round trip is the identity on the output when the nested containers
\* hold their keys in ascending order; this holds under SpecRoundTrip.
MarshalRoundTripOnAscendingNestedKeys ==
    (RoundTripped /\ NestedKeysAscending(1)) =>
        /\ last.err = NoErr
        /\ Alive(3)
        /\ ToJSON(arrays, objs, 3) = ToJSON(arrays, objs, 1)

\* a container of two entries without nested containers went the round
\* trip
FlatContainerRoundTripped ==
    /\ RoundTripped /\ last.err = NoErr
    /\ KeysOf(arrays, objs, 1) = <<"b", "a">>
    /\ \A i \in 1 .. 2 : Entries(arrays, objs, 1)[i].Value.t = "num"
    /\ ToJSON(arrays, objs, 3) = ToJSON(arrays, objs, 1)

====
